---------------------------- MODULE Spec2Model ----------------------------
(***************************************************************************)
(* Session state machine of the Chess Master board: the GameState held by  *)
(* the ChessGame component (src/src/components/ChessGame.tsx), its clock,  *)
(* its localStorage record and the time-control form of the SettingsDialog *)
(* (src/src/components/SettingsDialog.tsx).                                *)
(*                                                                         *)
(* The rules engine (chess.js) is an external library.  It is modelled by  *)
(* its answers on a closed set of positions: standard chess rules computed *)
(* on the full 8x8 board for a reduced, pawnless starting position, with   *)
(* the squares offered as move input limited to Squares.  Every kind of    *)
(* termination the engine reports (checkmate, stalemate, insufficient      *)
(* material, threefold repetition) occurs among these positions.           *)
(* The fifty-move rule needs 100 plies and is outside every bound used.    *)
(***************************************************************************)
EXTENDS Integers, Sequences, FiniteSets, TLC

(***************************************************************************)
(* Bounds of the model.                                                    *)
(***************************************************************************)
\* committed moves explored in one run
MaxMoves == 4
\* number of clock ticks explored in one run
MaxTicks == 2
\* largest remaining time of a restored session at start
MaxTime == 1
\* increment configured in a restored session
MaxIncrement == 1
\* committed moves explored in a run on the squares of a repetition
MaxPlies == 9
\* half seconds in the period of the interval (1000 ms)
Halves == 2

(***************************************************************************)
(* Rules engine: positions, placement, legal moves and status flags.       *)
(* A position is the piece placement and the side to move, written as the  *)
(* first two fields of its FEN.                                            *)
(***************************************************************************)
\* the position of new Chess(): white Ka1 Na2, black Kb3 Rc3 Nc1, white to move
DEFAULT_POSITION == "8/8/8/8/8/1kr5/N7/K1n5 w"

\* the squares offered as input to the handlers
Squares == {"a1", "a2", "a3", "b3", "c1", "c3"}

\* every position reachable from DEFAULT_POSITION by moves between Squares
Positions ==
  { "8/8/8/8/8/1kr5/N7/K1n5 w",
    "8/8/8/8/8/1kN5/8/K1n5 b",
    "8/8/8/8/8/1kr5/8/K1N5 b",
    "8/8/8/8/8/1k6/8/K1r5 w",
    "8/8/8/8/8/1kN5/n7/K7 w",
    "8/8/8/8/8/2k5/8/K1n5 w",
    "8/8/8/8/8/k1N5/8/K1n5 w",
    "8/8/8/8/8/k1r5/8/K1N5 w",
    "8/8/8/8/8/1k6/N7/K7 b",
    "8/8/8/8/8/k1r5/N7/K7 b",
    "8/8/8/8/8/k7/N7/K1n5 b",
    "8/8/8/8/8/kNr5/8/K7 b",
    "8/8/8/8/8/1k6/N7/K1n5 w",
    "8/8/8/8/8/1kr5/8/K7 w",
    "8/8/8/8/8/1kr5/N7/K7 w",
    "8/8/8/8/8/k7/N7/K1r5 w",
    "8/8/8/8/8/k7/N7/K7 w",
    "8/8/8/8/8/k7/n7/K7 w",
    "8/8/8/8/8/kN6/8/K1r5 w",
    "8/8/8/8/8/kn6/N7/K7 w",
    "8/8/8/8/8/kr6/8/K7 w",
    "8/8/8/8/8/kr6/N7/K7 w",
    "8/8/8/8/8/1k6/8/K1N5 b",
    "8/8/8/8/8/1kN5/8/K7 b",
    "8/8/8/8/8/k1N5/8/K7 b",
    "8/8/8/8/8/k7/8/K1N5 b",
    "8/8/8/8/8/kr6/8/K1N5 b",
    "8/8/8/8/8/krN5/8/K7 b",
    "8/8/8/8/8/1kN5/8/K7 w",
    "8/8/8/8/8/2k5/8/K1N5 w",
    "8/8/8/8/8/2k5/8/K7 w",
    "8/8/8/8/8/k1N5/8/K7 w",
    "8/8/8/8/8/k1r5/8/K7 w",
    "8/8/8/8/8/k7/8/K1N5 w",
    "8/8/8/8/8/1Nk5/8/K7 b",
    "8/8/8/8/8/2k5/K7/2N5 b",
    "8/8/8/8/8/2k5/K7/8 b",
    "8/8/8/8/8/2k5/N7/K7 b",
    "8/8/8/8/8/k7/N7/K7 b",
    "8/8/8/8/8/kN6/8/K7 b",
    "8/8/8/8/8/1k6/8/K7 w",
    "8/8/8/8/8/1k6/N7/K7 w" }

\* the pieces of a position: <<square, color, type>>
Placement ==
  "8/8/8/8/8/1kr5/N7/K1n5 w" :> {<<"a1", "w", "k">>, <<"a2", "w", "n">>, <<"b3", "b", "k">>, <<"c1", "b", "n">>, <<"c3", "b", "r">>}
  @@ "8/8/8/8/8/1kN5/8/K1n5 b" :> {<<"a1", "w", "k">>, <<"b3", "b", "k">>, <<"c1", "b", "n">>, <<"c3", "w", "n">>}
  @@ "8/8/8/8/8/1kr5/8/K1N5 b" :> {<<"a1", "w", "k">>, <<"b3", "b", "k">>, <<"c1", "w", "n">>, <<"c3", "b", "r">>}
  @@ "8/8/8/8/8/1k6/8/K1r5 w" :> {<<"a1", "w", "k">>, <<"b3", "b", "k">>, <<"c1", "b", "r">>}
  @@ "8/8/8/8/8/1kN5/n7/K7 w" :> {<<"a1", "w", "k">>, <<"a2", "b", "n">>, <<"b3", "b", "k">>, <<"c3", "w", "n">>}
  @@ "8/8/8/8/8/2k5/8/K1n5 w" :> {<<"a1", "w", "k">>, <<"c1", "b", "n">>, <<"c3", "b", "k">>}
  @@ "8/8/8/8/8/k1N5/8/K1n5 w" :> {<<"a1", "w", "k">>, <<"a3", "b", "k">>, <<"c1", "b", "n">>, <<"c3", "w", "n">>}
  @@ "8/8/8/8/8/k1r5/8/K1N5 w" :> {<<"a1", "w", "k">>, <<"a3", "b", "k">>, <<"c1", "w", "n">>, <<"c3", "b", "r">>}
  @@ "8/8/8/8/8/1k6/N7/K7 b" :> {<<"a1", "w", "k">>, <<"a2", "w", "n">>, <<"b3", "b", "k">>}
  @@ "8/8/8/8/8/k1r5/N7/K7 b" :> {<<"a1", "w", "k">>, <<"a2", "w", "n">>, <<"a3", "b", "k">>, <<"c3", "b", "r">>}
  @@ "8/8/8/8/8/k7/N7/K1n5 b" :> {<<"a1", "w", "k">>, <<"a2", "w", "n">>, <<"a3", "b", "k">>, <<"c1", "b", "n">>}
  @@ "8/8/8/8/8/kNr5/8/K7 b" :> {<<"a1", "w", "k">>, <<"a3", "b", "k">>, <<"b3", "w", "n">>, <<"c3", "b", "r">>}
  @@ "8/8/8/8/8/1k6/N7/K1n5 w" :> {<<"a1", "w", "k">>, <<"a2", "w", "n">>, <<"b3", "b", "k">>, <<"c1", "b", "n">>}
  @@ "8/8/8/8/8/1kr5/8/K7 w" :> {<<"a1", "w", "k">>, <<"b3", "b", "k">>, <<"c3", "b", "r">>}
  @@ "8/8/8/8/8/1kr5/N7/K7 w" :> {<<"a1", "w", "k">>, <<"a2", "w", "n">>, <<"b3", "b", "k">>, <<"c3", "b", "r">>}
  @@ "8/8/8/8/8/k7/N7/K1r5 w" :> {<<"a1", "w", "k">>, <<"a2", "w", "n">>, <<"a3", "b", "k">>, <<"c1", "b", "r">>}
  @@ "8/8/8/8/8/k7/N7/K7 w" :> {<<"a1", "w", "k">>, <<"a2", "w", "n">>, <<"a3", "b", "k">>}
  @@ "8/8/8/8/8/k7/n7/K7 w" :> {<<"a1", "w", "k">>, <<"a2", "b", "n">>, <<"a3", "b", "k">>}
  @@ "8/8/8/8/8/kN6/8/K1r5 w" :> {<<"a1", "w", "k">>, <<"a3", "b", "k">>, <<"b3", "w", "n">>, <<"c1", "b", "r">>}
  @@ "8/8/8/8/8/kn6/N7/K7 w" :> {<<"a1", "w", "k">>, <<"a2", "w", "n">>, <<"a3", "b", "k">>, <<"b3", "b", "n">>}
  @@ "8/8/8/8/8/kr6/8/K7 w" :> {<<"a1", "w", "k">>, <<"a3", "b", "k">>, <<"b3", "b", "r">>}
  @@ "8/8/8/8/8/kr6/N7/K7 w" :> {<<"a1", "w", "k">>, <<"a2", "w", "n">>, <<"a3", "b", "k">>, <<"b3", "b", "r">>}
  @@ "8/8/8/8/8/1k6/8/K1N5 b" :> {<<"a1", "w", "k">>, <<"b3", "b", "k">>, <<"c1", "w", "n">>}
  @@ "8/8/8/8/8/1kN5/8/K7 b" :> {<<"a1", "w", "k">>, <<"b3", "b", "k">>, <<"c3", "w", "n">>}
  @@ "8/8/8/8/8/k1N5/8/K7 b" :> {<<"a1", "w", "k">>, <<"a3", "b", "k">>, <<"c3", "w", "n">>}
  @@ "8/8/8/8/8/k7/8/K1N5 b" :> {<<"a1", "w", "k">>, <<"a3", "b", "k">>, <<"c1", "w", "n">>}
  @@ "8/8/8/8/8/kr6/8/K1N5 b" :> {<<"a1", "w", "k">>, <<"a3", "b", "k">>, <<"b3", "b", "r">>, <<"c1", "w", "n">>}
  @@ "8/8/8/8/8/krN5/8/K7 b" :> {<<"a1", "w", "k">>, <<"a3", "b", "k">>, <<"b3", "b", "r">>, <<"c3", "w", "n">>}
  @@ "8/8/8/8/8/1kN5/8/K7 w" :> {<<"a1", "w", "k">>, <<"b3", "b", "k">>, <<"c3", "w", "n">>}
  @@ "8/8/8/8/8/2k5/8/K1N5 w" :> {<<"a1", "w", "k">>, <<"c1", "w", "n">>, <<"c3", "b", "k">>}
  @@ "8/8/8/8/8/2k5/8/K7 w" :> {<<"a1", "w", "k">>, <<"c3", "b", "k">>}
  @@ "8/8/8/8/8/k1N5/8/K7 w" :> {<<"a1", "w", "k">>, <<"a3", "b", "k">>, <<"c3", "w", "n">>}
  @@ "8/8/8/8/8/k1r5/8/K7 w" :> {<<"a1", "w", "k">>, <<"a3", "b", "k">>, <<"c3", "b", "r">>}
  @@ "8/8/8/8/8/k7/8/K1N5 w" :> {<<"a1", "w", "k">>, <<"a3", "b", "k">>, <<"c1", "w", "n">>}
  @@ "8/8/8/8/8/1Nk5/8/K7 b" :> {<<"a1", "w", "k">>, <<"b3", "w", "n">>, <<"c3", "b", "k">>}
  @@ "8/8/8/8/8/2k5/K7/2N5 b" :> {<<"a2", "w", "k">>, <<"c1", "w", "n">>, <<"c3", "b", "k">>}
  @@ "8/8/8/8/8/2k5/K7/8 b" :> {<<"a2", "w", "k">>, <<"c3", "b", "k">>}
  @@ "8/8/8/8/8/2k5/N7/K7 b" :> {<<"a1", "w", "k">>, <<"a2", "w", "n">>, <<"c3", "b", "k">>}
  @@ "8/8/8/8/8/k7/N7/K7 b" :> {<<"a1", "w", "k">>, <<"a2", "w", "n">>, <<"a3", "b", "k">>}
  @@ "8/8/8/8/8/kN6/8/K7 b" :> {<<"a1", "w", "k">>, <<"a3", "b", "k">>, <<"b3", "w", "n">>}
  @@ "8/8/8/8/8/1k6/8/K7 w" :> {<<"a1", "w", "k">>, <<"b3", "b", "k">>}
  @@ "8/8/8/8/8/1k6/N7/K7 w" :> {<<"a1", "w", "k">>, <<"a2", "w", "n">>, <<"b3", "b", "k">>}

\* the legal moves of a position between Squares, as the engine reports a move:
\* fen is the position before the move, after the position it leads to
LegalMoves ==
  "8/8/8/8/8/1kr5/N7/K1n5 w" :> {[fen |-> "8/8/8/8/8/1kr5/N7/K1n5 w", from |-> "a2", to |-> "c1", san |-> "Nxc1+",
          color |-> "w", captured |-> "n", after |-> "8/8/8/8/8/1kr5/8/K1N5 b"],
       [fen |-> "8/8/8/8/8/1kr5/N7/K1n5 w", from |-> "a2", to |-> "c3", san |-> "Nxc3",
          color |-> "w", captured |-> "r", after |-> "8/8/8/8/8/1kN5/8/K1n5 b"]}
  @@ "8/8/8/8/8/1kN5/8/K1n5 b" :> {[fen |-> "8/8/8/8/8/1kN5/8/K1n5 b", from |-> "b3", to |-> "a3", san |-> "Ka3",
          color |-> "b", captured |-> "-", after |-> "8/8/8/8/8/k1N5/8/K1n5 w"],
       [fen |-> "8/8/8/8/8/1kN5/8/K1n5 b", from |-> "b3", to |-> "c3", san |-> "Kxc3",
          color |-> "b", captured |-> "n", after |-> "8/8/8/8/8/2k5/8/K1n5 w"],
       [fen |-> "8/8/8/8/8/1kN5/8/K1n5 b", from |-> "c1", to |-> "a2", san |-> "Na2",
          color |-> "b", captured |-> "-", after |-> "8/8/8/8/8/1kN5/n7/K7 w"]}
  @@ "8/8/8/8/8/1kr5/8/K1N5 b" :> {[fen |-> "8/8/8/8/8/1kr5/8/K1N5 b", from |-> "b3", to |-> "a3", san |-> "Ka3",
          color |-> "b", captured |-> "-", after |-> "8/8/8/8/8/k1r5/8/K1N5 w"],
       [fen |-> "8/8/8/8/8/1kr5/8/K1N5 b", from |-> "c3", to |-> "c1", san |-> "Rxc1#",
          color |-> "b", captured |-> "n", after |-> "8/8/8/8/8/1k6/8/K1r5 w"]}
  @@ "8/8/8/8/8/1k6/8/K1r5 w" :> {}
  @@ "8/8/8/8/8/1kN5/n7/K7 w" :> {[fen |-> "8/8/8/8/8/1kN5/n7/K7 w", from |-> "c3", to |-> "a2", san |-> "Nxa2",
          color |-> "w", captured |-> "n", after |-> "8/8/8/8/8/1k6/N7/K7 b"]}
  @@ "8/8/8/8/8/2k5/8/K1n5 w" :> {}
  @@ "8/8/8/8/8/k1N5/8/K1n5 w" :> {[fen |-> "8/8/8/8/8/k1N5/8/K1n5 w", from |-> "c3", to |-> "a2", san |-> "Na2",
          color |-> "w", captured |-> "-", after |-> "8/8/8/8/8/k7/N7/K1n5 b"]}
  @@ "8/8/8/8/8/k1r5/8/K1N5 w" :> {[fen |-> "8/8/8/8/8/k1r5/8/K1N5 w", from |-> "c1", to |-> "a2", san |-> "Na2",
          color |-> "w", captured |-> "-", after |-> "8/8/8/8/8/k1r5/N7/K7 b"],
       [fen |-> "8/8/8/8/8/k1r5/8/K1N5 w", from |-> "c1", to |-> "b3", san |-> "Nb3",
          color |-> "w", captured |-> "-", after |-> "8/8/8/8/8/kNr5/8/K7 b"]}
  @@ "8/8/8/8/8/1k6/N7/K7 b" :> {[fen |-> "8/8/8/8/8/1k6/N7/K7 b", from |-> "b3", to |-> "a3", san |-> "Ka3",
          color |-> "b", captured |-> "-", after |-> "8/8/8/8/8/k7/N7/K7 w"]}
  @@ "8/8/8/8/8/k1r5/N7/K7 b" :> {[fen |-> "8/8/8/8/8/k1r5/N7/K7 b", from |-> "a3", to |-> "b3", san |-> "Kb3",
          color |-> "b", captured |-> "-", after |-> "8/8/8/8/8/1kr5/N7/K7 w"],
       [fen |-> "8/8/8/8/8/k1r5/N7/K7 b", from |-> "c3", to |-> "b3", san |-> "Rb3",
          color |-> "b", captured |-> "-", after |-> "8/8/8/8/8/kr6/N7/K7 w"],
       [fen |-> "8/8/8/8/8/k1r5/N7/K7 b", from |-> "c3", to |-> "c1", san |-> "Rc1+",
          color |-> "b", captured |-> "-", after |-> "8/8/8/8/8/k7/N7/K1r5 w"]}
  @@ "8/8/8/8/8/k7/N7/K1n5 b" :> {[fen |-> "8/8/8/8/8/k7/N7/K1n5 b", from |-> "a3", to |-> "b3", san |-> "Kb3",
          color |-> "b", captured |-> "-", after |-> "8/8/8/8/8/1k6/N7/K1n5 w"],
       [fen |-> "8/8/8/8/8/k7/N7/K1n5 b", from |-> "c1", to |-> "a2", san |-> "Nxa2",
          color |-> "b", captured |-> "n", after |-> "8/8/8/8/8/k7/n7/K7 w"],
       [fen |-> "8/8/8/8/8/k7/N7/K1n5 b", from |-> "c1", to |-> "b3", san |-> "Nb3+",
          color |-> "b", captured |-> "-", after |-> "8/8/8/8/8/kn6/N7/K7 w"]}
  @@ "8/8/8/8/8/kNr5/8/K7 b" :> {[fen |-> "8/8/8/8/8/kNr5/8/K7 b", from |-> "a3", to |-> "b3", san |-> "Kxb3",
          color |-> "b", captured |-> "n", after |-> "8/8/8/8/8/1kr5/8/K7 w"],
       [fen |-> "8/8/8/8/8/kNr5/8/K7 b", from |-> "c3", to |-> "b3", san |-> "Rxb3",
          color |-> "b", captured |-> "n", after |-> "8/8/8/8/8/kr6/8/K7 w"],
       [fen |-> "8/8/8/8/8/kNr5/8/K7 b", from |-> "c3", to |-> "c1", san |-> "Rc1+",
          color |-> "b", captured |-> "-", after |-> "8/8/8/8/8/kN6/8/K1r5 w"]}
  @@ "8/8/8/8/8/1k6/N7/K1n5 w" :> {[fen |-> "8/8/8/8/8/1k6/N7/K1n5 w", from |-> "a2", to |-> "c1", san |-> "Nxc1+",
          color |-> "w", captured |-> "n", after |-> "8/8/8/8/8/1k6/8/K1N5 b"],
       [fen |-> "8/8/8/8/8/1k6/N7/K1n5 w", from |-> "a2", to |-> "c3", san |-> "Nc3",
          color |-> "w", captured |-> "-", after |-> "8/8/8/8/8/1kN5/8/K1n5 b"]}
  @@ "8/8/8/8/8/1kr5/8/K7 w" :> {}
  @@ "8/8/8/8/8/1kr5/N7/K7 w" :> {[fen |-> "8/8/8/8/8/1kr5/N7/K7 w", from |-> "a2", to |-> "c1", san |-> "Nc1+",
          color |-> "w", captured |-> "-", after |-> "8/8/8/8/8/1kr5/8/K1N5 b"],
       [fen |-> "8/8/8/8/8/1kr5/N7/K7 w", from |-> "a2", to |-> "c3", san |-> "Nxc3",
          color |-> "w", captured |-> "r", after |-> "8/8/8/8/8/1kN5/8/K7 b"]}
  @@ "8/8/8/8/8/k7/N7/K1r5 w" :> {[fen |-> "8/8/8/8/8/k7/N7/K1r5 w", from |-> "a2", to |-> "c1", san |-> "Nxc1",
          color |-> "w", captured |-> "r", after |-> "8/8/8/8/8/k7/8/K1N5 b"]}
  @@ "8/8/8/8/8/k7/N7/K7 w" :> {[fen |-> "8/8/8/8/8/k7/N7/K7 w", from |-> "a2", to |-> "c1", san |-> "Nc1",
          color |-> "w", captured |-> "-", after |-> "8/8/8/8/8/k7/8/K1N5 b"],
       [fen |-> "8/8/8/8/8/k7/N7/K7 w", from |-> "a2", to |-> "c3", san |-> "Nc3",
          color |-> "w", captured |-> "-", after |-> "8/8/8/8/8/k1N5/8/K7 b"]}
  @@ "8/8/8/8/8/k7/n7/K7 w" :> {}
  @@ "8/8/8/8/8/kN6/8/K1r5 w" :> {[fen |-> "8/8/8/8/8/kN6/8/K1r5 w", from |-> "b3", to |-> "c1", san |-> "Nxc1",
          color |-> "w", captured |-> "r", after |-> "8/8/8/8/8/k7/8/K1N5 b"]}
  @@ "8/8/8/8/8/kn6/N7/K7 w" :> {}
  @@ "8/8/8/8/8/kr6/8/K7 w" :> {}
  @@ "8/8/8/8/8/kr6/N7/K7 w" :> {[fen |-> "8/8/8/8/8/kr6/N7/K7 w", from |-> "a2", to |-> "c1", san |-> "Nc1",
          color |-> "w", captured |-> "-", after |-> "8/8/8/8/8/kr6/8/K1N5 b"],
       [fen |-> "8/8/8/8/8/kr6/N7/K7 w", from |-> "a2", to |-> "c3", san |-> "Nc3",
          color |-> "w", captured |-> "-", after |-> "8/8/8/8/8/krN5/8/K7 b"]}
  @@ "8/8/8/8/8/1k6/8/K1N5 b" :> {[fen |-> "8/8/8/8/8/1k6/8/K1N5 b", from |-> "b3", to |-> "a3", san |-> "Ka3",
          color |-> "b", captured |-> "-", after |-> "8/8/8/8/8/k7/8/K1N5 w"],
       [fen |-> "8/8/8/8/8/1k6/8/K1N5 b", from |-> "b3", to |-> "c3", san |-> "Kc3",
          color |-> "b", captured |-> "-", after |-> "8/8/8/8/8/2k5/8/K1N5 w"]}
  @@ "8/8/8/8/8/1kN5/8/K7 b" :> {[fen |-> "8/8/8/8/8/1kN5/8/K7 b", from |-> "b3", to |-> "a3", san |-> "Ka3",
          color |-> "b", captured |-> "-", after |-> "8/8/8/8/8/k1N5/8/K7 w"],
       [fen |-> "8/8/8/8/8/1kN5/8/K7 b", from |-> "b3", to |-> "c3", san |-> "Kxc3",
          color |-> "b", captured |-> "n", after |-> "8/8/8/8/8/2k5/8/K7 w"]}
  @@ "8/8/8/8/8/k1N5/8/K7 b" :> {[fen |-> "8/8/8/8/8/k1N5/8/K7 b", from |-> "a3", to |-> "b3", san |-> "Kb3",
          color |-> "b", captured |-> "-", after |-> "8/8/8/8/8/1kN5/8/K7 w"]}
  @@ "8/8/8/8/8/k7/8/K1N5 b" :> {}
  @@ "8/8/8/8/8/kr6/8/K1N5 b" :> {[fen |-> "8/8/8/8/8/kr6/8/K1N5 b", from |-> "b3", to |-> "c3", san |-> "Rc3",
          color |-> "b", captured |-> "-", after |-> "8/8/8/8/8/k1r5/8/K1N5 w"]}
  @@ "8/8/8/8/8/krN5/8/K7 b" :> {[fen |-> "8/8/8/8/8/krN5/8/K7 b", from |-> "b3", to |-> "c3", san |-> "Rxc3",
          color |-> "b", captured |-> "n", after |-> "8/8/8/8/8/k1r5/8/K7 w"]}
  @@ "8/8/8/8/8/1kN5/8/K7 w" :> {[fen |-> "8/8/8/8/8/1kN5/8/K7 w", from |-> "c3", to |-> "a2", san |-> "Na2",
          color |-> "w", captured |-> "-", after |-> "8/8/8/8/8/1k6/N7/K7 b"]}
  @@ "8/8/8/8/8/2k5/8/K1N5 w" :> {[fen |-> "8/8/8/8/8/2k5/8/K1N5 w", from |-> "a1", to |-> "a2", san |-> "Ka2",
          color |-> "w", captured |-> "-", after |-> "8/8/8/8/8/2k5/K7/2N5 b"],
       [fen |-> "8/8/8/8/8/2k5/8/K1N5 w", from |-> "c1", to |-> "a2", san |-> "Na2+",
          color |-> "w", captured |-> "-", after |-> "8/8/8/8/8/2k5/N7/K7 b"],
       [fen |-> "8/8/8/8/8/2k5/8/K1N5 w", from |-> "c1", to |-> "b3", san |-> "Nb3",
          color |-> "w", captured |-> "-", after |-> "8/8/8/8/8/1Nk5/8/K7 b"]}
  @@ "8/8/8/8/8/2k5/8/K7 w" :> {[fen |-> "8/8/8/8/8/2k5/8/K7 w", from |-> "a1", to |-> "a2", san |-> "Ka2",
          color |-> "w", captured |-> "-", after |-> "8/8/8/8/8/2k5/K7/8 b"]}
  @@ "8/8/8/8/8/k1N5/8/K7 w" :> {[fen |-> "8/8/8/8/8/k1N5/8/K7 w", from |-> "c3", to |-> "a2", san |-> "Na2",
          color |-> "w", captured |-> "-", after |-> "8/8/8/8/8/k7/N7/K7 b"]}
  @@ "8/8/8/8/8/k1r5/8/K7 w" :> {}
  @@ "8/8/8/8/8/k7/8/K1N5 w" :> {[fen |-> "8/8/8/8/8/k7/8/K1N5 w", from |-> "c1", to |-> "a2", san |-> "Na2",
          color |-> "w", captured |-> "-", after |-> "8/8/8/8/8/k7/N7/K7 b"],
       [fen |-> "8/8/8/8/8/k7/8/K1N5 w", from |-> "c1", to |-> "b3", san |-> "Nb3",
          color |-> "w", captured |-> "-", after |-> "8/8/8/8/8/kN6/8/K7 b"]}
  @@ "8/8/8/8/8/1Nk5/8/K7 b" :> {[fen |-> "8/8/8/8/8/1Nk5/8/K7 b", from |-> "c3", to |-> "b3", san |-> "Kxb3",
          color |-> "b", captured |-> "n", after |-> "8/8/8/8/8/1k6/8/K7 w"]}
  @@ "8/8/8/8/8/2k5/K7/2N5 b" :> {}
  @@ "8/8/8/8/8/2k5/K7/8 b" :> {}
  @@ "8/8/8/8/8/2k5/N7/K7 b" :> {[fen |-> "8/8/8/8/8/2k5/N7/K7 b", from |-> "c3", to |-> "b3", san |-> "Kb3",
          color |-> "b", captured |-> "-", after |-> "8/8/8/8/8/1k6/N7/K7 w"]}
  @@ "8/8/8/8/8/k7/N7/K7 b" :> {[fen |-> "8/8/8/8/8/k7/N7/K7 b", from |-> "a3", to |-> "b3", san |-> "Kb3",
          color |-> "b", captured |-> "-", after |-> "8/8/8/8/8/1k6/N7/K7 w"]}
  @@ "8/8/8/8/8/kN6/8/K7 b" :> {[fen |-> "8/8/8/8/8/kN6/8/K7 b", from |-> "a3", to |-> "b3", san |-> "Kxb3",
          color |-> "b", captured |-> "n", after |-> "8/8/8/8/8/1k6/8/K7 w"]}
  @@ "8/8/8/8/8/1k6/8/K7 w" :> {}
  @@ "8/8/8/8/8/1k6/N7/K7 w" :> {[fen |-> "8/8/8/8/8/1k6/N7/K7 w", from |-> "a2", to |-> "c1", san |-> "Nc1+",
          color |-> "w", captured |-> "-", after |-> "8/8/8/8/8/1k6/8/K1N5 b"],
       [fen |-> "8/8/8/8/8/1k6/N7/K7 w", from |-> "a2", to |-> "c3", san |-> "Nc3",
          color |-> "w", captured |-> "-", after |-> "8/8/8/8/8/1kN5/8/K7 b"]}

\* every legal <<from, to>> of a position on the full board
Destinations ==
  "8/8/8/8/8/1kr5/N7/K1n5 w" :> {<<"a1", "b1">>, <<"a2", "b4">>, <<"a2", "c1">>, <<"a2", "c3">>}
  @@ "8/8/8/8/8/1kN5/8/K1n5 b" :> {<<"b3", "a3">>, <<"b3", "b4">>, <<"b3", "c2">>, <<"b3", "c3">>, <<"b3", "c4">>, <<"c1", "a2">>, <<"c1", "d3">>, <<"c1", "e2">>}
  @@ "8/8/8/8/8/1kr5/8/K1N5 b" :> {<<"b3", "a3">>, <<"b3", "a4">>, <<"b3", "b4">>, <<"b3", "c2">>, <<"b3", "c4">>, <<"c3", "c1">>}
  @@ "8/8/8/8/8/1k6/8/K1r5 w" :> {}
  @@ "8/8/8/8/8/1kN5/n7/K7 w" :> {<<"a1", "b1">>, <<"c3", "a2">>, <<"c3", "a4">>, <<"c3", "b1">>, <<"c3", "b5">>, <<"c3", "d1">>, <<"c3", "d5">>, <<"c3", "e2">>, <<"c3", "e4">>}
  @@ "8/8/8/8/8/2k5/8/K1n5 w" :> {<<"a1", "b1">>}
  @@ "8/8/8/8/8/k1N5/8/K1n5 w" :> {<<"a1", "b1">>, <<"c3", "a2">>, <<"c3", "a4">>, <<"c3", "b1">>, <<"c3", "b5">>, <<"c3", "d1">>, <<"c3", "d5">>, <<"c3", "e2">>, <<"c3", "e4">>}
  @@ "8/8/8/8/8/k1r5/8/K1N5 w" :> {<<"a1", "b1">>, <<"c1", "a2">>, <<"c1", "b3">>, <<"c1", "d3">>, <<"c1", "e2">>}
  @@ "8/8/8/8/8/1k6/N7/K7 b" :> {<<"b3", "a3">>, <<"b3", "a4">>, <<"b3", "c2">>, <<"b3", "c4">>}
  @@ "8/8/8/8/8/k1r5/N7/K7 b" :> {<<"a3", "a4">>, <<"a3", "b3">>, <<"c3", "b3">>, <<"c3", "c1">>, <<"c3", "c2">>, <<"c3", "c4">>, <<"c3", "c5">>, <<"c3", "c6">>, <<"c3", "c7">>, <<"c3", "c8">>, <<"c3", "d3">>, <<"c3", "e3">>, <<"c3", "f3">>, <<"c3", "g3">>, <<"c3", "h3">>}
  @@ "8/8/8/8/8/k7/N7/K1n5 b" :> {<<"a3", "a4">>, <<"a3", "b3">>, <<"c1", "a2">>, <<"c1", "b3">>, <<"c1", "d3">>, <<"c1", "e2">>}
  @@ "8/8/8/8/8/kNr5/8/K7 b" :> {<<"a3", "a4">>, <<"a3", "b3">>, <<"a3", "b4">>, <<"c3", "b3">>, <<"c3", "c1">>, <<"c3", "c2">>, <<"c3", "c4">>, <<"c3", "c5">>, <<"c3", "c6">>, <<"c3", "c7">>, <<"c3", "c8">>, <<"c3", "d3">>, <<"c3", "e3">>, <<"c3", "f3">>, <<"c3", "g3">>, <<"c3", "h3">>}
  @@ "8/8/8/8/8/1k6/N7/K1n5 w" :> {<<"a1", "b1">>, <<"a2", "b4">>, <<"a2", "c1">>, <<"a2", "c3">>}
  @@ "8/8/8/8/8/1kr5/8/K7 w" :> {<<"a1", "b1">>}
  @@ "8/8/8/8/8/1kr5/N7/K7 w" :> {<<"a1", "b1">>, <<"a2", "b4">>, <<"a2", "c1">>, <<"a2", "c3">>}
  @@ "8/8/8/8/8/k7/N7/K1r5 w" :> {<<"a2", "c1">>}
  @@ "8/8/8/8/8/k7/N7/K7 w" :> {<<"a1", "b1">>, <<"a2", "b4">>, <<"a2", "c1">>, <<"a2", "c3">>}
  @@ "8/8/8/8/8/k7/n7/K7 w" :> {<<"a1", "b1">>}
  @@ "8/8/8/8/8/kN6/8/K1r5 w" :> {<<"b3", "c1">>}
  @@ "8/8/8/8/8/kn6/N7/K7 w" :> {<<"a1", "b1">>}
  @@ "8/8/8/8/8/kr6/8/K7 w" :> {}
  @@ "8/8/8/8/8/kr6/N7/K7 w" :> {<<"a2", "b4">>, <<"a2", "c1">>, <<"a2", "c3">>}
  @@ "8/8/8/8/8/1k6/8/K1N5 b" :> {<<"b3", "a3">>, <<"b3", "a4">>, <<"b3", "b4">>, <<"b3", "c2">>, <<"b3", "c3">>, <<"b3", "c4">>}
  @@ "8/8/8/8/8/1kN5/8/K7 b" :> {<<"b3", "a3">>, <<"b3", "b4">>, <<"b3", "c2">>, <<"b3", "c3">>, <<"b3", "c4">>}
  @@ "8/8/8/8/8/k1N5/8/K7 b" :> {<<"a3", "b3">>, <<"a3", "b4">>}
  @@ "8/8/8/8/8/k7/8/K1N5 b" :> {<<"a3", "a4">>, <<"a3", "b4">>}
  @@ "8/8/8/8/8/kr6/8/K1N5 b" :> {<<"a3", "a4">>, <<"a3", "b4">>, <<"b3", "b1">>, <<"b3", "b2">>, <<"b3", "b4">>, <<"b3", "b5">>, <<"b3", "b6">>, <<"b3", "b7">>, <<"b3", "b8">>, <<"b3", "c3">>, <<"b3", "d3">>, <<"b3", "e3">>, <<"b3", "f3">>, <<"b3", "g3">>, <<"b3", "h3">>}
  @@ "8/8/8/8/8/krN5/8/K7 b" :> {<<"a3", "b4">>, <<"b3", "b1">>, <<"b3", "b2">>, <<"b3", "b4">>, <<"b3", "b5">>, <<"b3", "b6">>, <<"b3", "b7">>, <<"b3", "b8">>, <<"b3", "c3">>}
  @@ "8/8/8/8/8/1kN5/8/K7 w" :> {<<"a1", "b1">>, <<"c3", "a2">>, <<"c3", "a4">>, <<"c3", "b1">>, <<"c3", "b5">>, <<"c3", "d1">>, <<"c3", "d5">>, <<"c3", "e2">>, <<"c3", "e4">>}
  @@ "8/8/8/8/8/2k5/8/K1N5 w" :> {<<"a1", "a2">>, <<"a1", "b1">>, <<"c1", "a2">>, <<"c1", "b3">>, <<"c1", "d3">>, <<"c1", "e2">>}
  @@ "8/8/8/8/8/2k5/8/K7 w" :> {<<"a1", "a2">>, <<"a1", "b1">>}
  @@ "8/8/8/8/8/k1N5/8/K7 w" :> {<<"a1", "b1">>, <<"c3", "a2">>, <<"c3", "a4">>, <<"c3", "b1">>, <<"c3", "b5">>, <<"c3", "d1">>, <<"c3", "d5">>, <<"c3", "e2">>, <<"c3", "e4">>}
  @@ "8/8/8/8/8/k1r5/8/K7 w" :> {<<"a1", "b1">>}
  @@ "8/8/8/8/8/k7/8/K1N5 w" :> {<<"a1", "b1">>, <<"c1", "a2">>, <<"c1", "b3">>, <<"c1", "d3">>, <<"c1", "e2">>}
  @@ "8/8/8/8/8/1Nk5/8/K7 b" :> {<<"c3", "b3">>, <<"c3", "b4">>, <<"c3", "c2">>, <<"c3", "c4">>, <<"c3", "d3">>}
  @@ "8/8/8/8/8/2k5/K7/2N5 b" :> {<<"c3", "b4">>, <<"c3", "c2">>, <<"c3", "c4">>, <<"c3", "d2">>, <<"c3", "d4">>}
  @@ "8/8/8/8/8/2k5/K7/8 b" :> {<<"c3", "b4">>, <<"c3", "c2">>, <<"c3", "c4">>, <<"c3", "d2">>, <<"c3", "d3">>, <<"c3", "d4">>}
  @@ "8/8/8/8/8/2k5/N7/K7 b" :> {<<"c3", "b3">>, <<"c3", "c2">>, <<"c3", "c4">>, <<"c3", "d2">>, <<"c3", "d3">>, <<"c3", "d4">>}
  @@ "8/8/8/8/8/k7/N7/K7 b" :> {<<"a3", "a4">>, <<"a3", "b3">>}
  @@ "8/8/8/8/8/kN6/8/K7 b" :> {<<"a3", "a4">>, <<"a3", "b3">>, <<"a3", "b4">>}
  @@ "8/8/8/8/8/1k6/8/K7 w" :> {<<"a1", "b1">>}
  @@ "8/8/8/8/8/1k6/N7/K7 w" :> {<<"a1", "b1">>, <<"a2", "b4">>, <<"a2", "c1">>, <<"a2", "c3">>}

\* positions with black to move
BlackToMove ==
  { "8/8/8/8/8/1kN5/8/K1n5 b",
    "8/8/8/8/8/1kr5/8/K1N5 b",
    "8/8/8/8/8/1k6/N7/K7 b",
    "8/8/8/8/8/k1r5/N7/K7 b",
    "8/8/8/8/8/k7/N7/K1n5 b",
    "8/8/8/8/8/kNr5/8/K7 b",
    "8/8/8/8/8/1k6/8/K1N5 b",
    "8/8/8/8/8/1kN5/8/K7 b",
    "8/8/8/8/8/k1N5/8/K7 b",
    "8/8/8/8/8/k7/8/K1N5 b",
    "8/8/8/8/8/kr6/8/K1N5 b",
    "8/8/8/8/8/krN5/8/K7 b",
    "8/8/8/8/8/1Nk5/8/K7 b",
    "8/8/8/8/8/2k5/K7/2N5 b",
    "8/8/8/8/8/2k5/K7/8 b",
    "8/8/8/8/8/2k5/N7/K7 b",
    "8/8/8/8/8/k7/N7/K7 b",
    "8/8/8/8/8/kN6/8/K7 b" }

\* positions whose side to move is in check
InCheck ==
  { "8/8/8/8/8/1kr5/8/K1N5 b",
    "8/8/8/8/8/1k6/8/K1r5 w",
    "8/8/8/8/8/k7/N7/K1r5 w",
    "8/8/8/8/8/kN6/8/K1r5 w",
    "8/8/8/8/8/kn6/N7/K7 w",
    "8/8/8/8/8/1k6/8/K1N5 b",
    "8/8/8/8/8/2k5/N7/K7 b" }

\* positions whose side to move has no legal move on the full board
NoLegalMove ==
  { "8/8/8/8/8/1k6/8/K1r5 w",
    "8/8/8/8/8/kr6/8/K7 w" }

\* positions with king against king, or king and one minor piece against king
InsufficientMaterial ==
  { "8/8/8/8/8/2k5/8/K1n5 w",
    "8/8/8/8/8/1k6/N7/K7 b",
    "8/8/8/8/8/k7/N7/K7 w",
    "8/8/8/8/8/k7/n7/K7 w",
    "8/8/8/8/8/1k6/8/K1N5 b",
    "8/8/8/8/8/1kN5/8/K7 b",
    "8/8/8/8/8/k1N5/8/K7 b",
    "8/8/8/8/8/k7/8/K1N5 b",
    "8/8/8/8/8/1kN5/8/K7 w",
    "8/8/8/8/8/2k5/8/K1N5 w",
    "8/8/8/8/8/2k5/8/K7 w",
    "8/8/8/8/8/k1N5/8/K7 w",
    "8/8/8/8/8/k7/8/K1N5 w",
    "8/8/8/8/8/1Nk5/8/K7 b",
    "8/8/8/8/8/2k5/K7/2N5 b",
    "8/8/8/8/8/2k5/K7/8 b",
    "8/8/8/8/8/2k5/N7/K7 b",
    "8/8/8/8/8/k7/N7/K7 b",
    "8/8/8/8/8/kN6/8/K7 b",
    "8/8/8/8/8/1k6/8/K7 w",
    "8/8/8/8/8/1k6/N7/K7 w" }

(***************************************************************************)
(* Values standing for JavaScript null.                                    *)
(***************************************************************************)
NoSquare == "null"
NoMove == [fen |-> "null", from |-> "null", to |-> "null", san |-> "null",
           color |-> "null", captured |-> "null", after |-> "null"]
NoLastMove == [from |-> "null", to |-> "null"]

(***************************************************************************)
(* The Chess object: the current position, the position the object was    *)
(* set up from, and the moves made on this object since then.              *)
(***************************************************************************)
\* new Chess(fen); new Chess() is Chess(DEFAULT_POSITION)
Chess(position) == [fen |-> position, setup |-> position, history |-> <<>>]

\* game.fen()
fen(game) == game.fen

\* game.turn()
turn(game) == IF game.fen \in BlackToMove THEN "b" ELSE "w"

\* game.get(square): <<color, type>> of the piece on the square, or <<>>
get(game, square) ==
  LET here == {p \in Placement[game.fen] : p[1] = square}
  IN  IF here = {} THEN <<>>
      ELSE LET p == CHOOSE x \in here : TRUE IN <<p[2], p[3]>>

\* game.moves({square, verbose: true}).map(move => move.to)
moves(game, square) ==
  {d[2] : d \in {x \in Destinations[game.fen] : x[1] = square}}

\* the legal move the engine finds for a from/to pair, NoMove when there is none
FindMove(game, from, to) ==
  LET found == {m \in LegalMoves[game.fen] : m.from = from /\ m.to = to}
  IN  IF found = {} THEN NoMove ELSE CHOOSE m \in found : TRUE

\* the legal move the engine finds for a move written in SAN
FindSan(game, san) ==
  LET found == {m \in LegalMoves[game.fen] : m.san = san}
  IN  IF found = {} THEN NoMove ELSE CHOOSE m \in found : TRUE

\* game.move(...) applied to the object, for a move the engine found
MakeMove(game, m) ==
  [game EXCEPT !.fen = m.after, !.history = Append(@, m)]

isCheck(game) == game.fen \in InCheck

isCheckmate(game) == game.fen \in InCheck /\ game.fen \in NoLegalMove

isStalemate(game) == game.fen \notin InCheck /\ game.fen \in NoLegalMove

isInsufficientMaterial(game) == game.fen \in InsufficientMaterial

\* the positions the object has been through: its setup, then one per move
Visited(game) ==
  <<game.setup>> \o [i \in 1..Len(game.history) |-> game.history[i].after]

isThreefoldRepetition(game) ==
  Cardinality({i \in 1..Len(Visited(game)) : Visited(game)[i] = game.fen}) >= 3

isDraw(game) ==
  isStalemate(game) \/ isInsufficientMaterial(game) \/ isThreefoldRepetition(game)

isGameOver(game) == isCheckmate(game) \/ isDraw(game)

\* variant of pgn: the moves only, without the SetUp/FEN header
pgn_MovesOnly(game) ==
  [FEN |-> "", moves |-> [i \in 1..Len(game.history) |-> game.history[i].san]]

\* game.pgn(): the SetUp/FEN header when the object was not set up from the
\* default position, and the moves of the object in SAN
pgn(game) ==
  [FEN |-> IF game.setup = DEFAULT_POSITION THEN "" ELSE game.setup,
   moves |-> [i \in 1..Len(game.history) |-> game.history[i].san]]

RECURSIVE Replay(_, _)
\* the object after playing a list of SAN moves on it, left to right
Replay(game, sans) ==
  IF sans = <<>> THEN game
  ELSE LET m == FindSan(game, Head(sans))
       IN  Replay(IF m = NoMove THEN game ELSE MakeMove(game, m), Tail(sans))

\* variant of loadPgn: the position of the header, the moves not replayed
loadPgn_HeaderOnly(text) ==
  Chess(IF text.FEN = "" THEN DEFAULT_POSITION ELSE text.FEN)

\* game.loadPgn(text) on a new object
loadPgn(text) ==
  Replay(Chess(IF text.FEN = "" THEN DEFAULT_POSITION ELSE text.FEN), text.moves)

(***************************************************************************)
(* Program constants.                                                      *)
(***************************************************************************)
\* initialTimeControl: 10 minutes a side, no increment
initialTimeControl == [white |-> 10 * 60, black |-> 10 * 60, increment |-> 0]

\* TIME_PRESETS of the settings form offered as input
TIME_PRESETS ==
  { [name |-> "Bullet (2+1)", time |-> 120, increment |-> 1] }

\* BOARD_THEMES of the settings form offered as input
BOARD_THEMES == {"classic", "modern"}

\* String.prototype.toUpperCase on the engine's piece letters
toUpperCase(letter) ==
  CASE letter = "k" -> "K" [] letter = "q" -> "Q" [] letter = "r" -> "R"
    [] letter = "b" -> "B" [] letter = "n" -> "N" [] letter = "p" -> "P"
    [] OTHER -> letter

(***************************************************************************)
(* State.                                                                  *)
(***************************************************************************)
VARIABLES
  gameState,         \* the GameState of the ChessGame component
  storage,           \* localStorage item 'chess-game-state': <<>> or <<saveData>>
  localTimeControl,  \* SettingsDialog: the time control edited in the form
  localShared,       \* the form's object is the very object gameState.timeControl
  resetGameTheme,    \* boardTheme seen by the memoized resetGame callback
  timeUpToasts,      \* "Time's up!" toasts raised since the game started
  ticks,             \* interval callbacks run so far
  intervalAge,       \* half seconds since the interval was set or last fired
  owed,              \* half seconds the clock has run and no tick has removed
  played,            \* moves committed so far
  last               \* the last handler run and what it did

vars == <<gameState, storage, localTimeControl, localShared, resetGameTheme,
          timeUpToasts, ticks, intervalAge, owed, played, last>>

(***************************************************************************)
(* Persistence.                                                            *)
(***************************************************************************)
\* variant of SaveData: the selection is written too
SaveData_WithSelection(state) ==
  [pgn |-> pgn(state.game),
   gameHistory |-> state.gameHistory,
   capturedPieces |-> state.capturedPieces,
   lastMove |-> state.lastMove,
   isFlipped |-> state.isFlipped,
   soundEnabled |-> state.soundEnabled,
   timeControl |-> state.timeControl,
   boardTheme |-> state.boardTheme,
   selectedSquare |-> state.selectedSquare,
   legalMoves |-> state.legalMoves]

\* saveData of saveGameState, as JSON.stringify writes it
SaveData(state) ==
  [pgn |-> pgn(state.game),
   gameHistory |-> state.gameHistory,
   capturedPieces |-> state.capturedPieces,
   lastMove |-> state.lastMove,
   isFlipped |-> state.isFlipped,
   soundEnabled |-> state.soundEnabled,
   timeControl |-> state.timeControl,
   boardTheme |-> state.boardTheme]

\* the fresh GameState of the useState initializer
FreshState ==
  [game |-> Chess(DEFAULT_POSITION),
   gameHistory |-> <<>>,
   capturedPieces |-> [white |-> <<>>, black |-> <<>>],
   lastMove |-> NoLastMove,
   selectedSquare |-> NoSquare,
   legalMoves |-> {},
   isFlipped |-> FALSE,
   soundEnabled |-> TRUE,
   timeControl |-> initialTimeControl,
   isTimerRunning |-> FALSE,
   boardTheme |-> "classic"]

\* the fields of the saved record
SaveFields ==
  {"pgn", "gameHistory", "capturedPieces", "lastMove", "isFlipped",
   "soundEnabled", "timeControl", "boardTheme"}

\* JSON.parse(savedGame) throws: the stored text is no JSON
SyntaxError(item) == "syntaxError" \in DOMAIN item[1]

\* parsed.name || fallback, for a field whose values are truthy when present
OrElse(parsed, name, fallback) ==
  IF name \in DOMAIN parsed THEN parsed[name] ELSE fallback

\* the object literal of the restore branch: a field the record lacks is
\* undefined in the session, modelled as a session record without that field
Restored(parsed) ==
  LET given == {"gameHistory", "capturedPieces", "lastMove"} \cap DOMAIN parsed
      fields == given \cup {"game", "selectedSquare", "legalMoves", "isFlipped",
                            "soundEnabled", "timeControl", "isTimerRunning",
                            "boardTheme"}
  IN  [name \in fields |->
         CASE name = "game" -> loadPgn(parsed.pgn)
           [] name = "selectedSquare" -> NoSquare
           [] name = "legalMoves" -> {}
           [] name = "isFlipped" -> OrElse(parsed, "isFlipped", FALSE)
           [] name = "soundEnabled" -> OrElse(parsed, "soundEnabled", TRUE)
           [] name = "timeControl" -> OrElse(parsed, "timeControl", initialTimeControl)
           [] name = "isTimerRunning" -> FALSE
           [] name = "boardTheme" -> OrElse(parsed, "boardTheme", "classic")
           [] OTHER -> parsed[name]]

\* the useState initializer: the saved game when there is one, else a fresh
\* one; JSON.parse on a text that is no JSON and loadPgn on an undefined pgn
\* throw, and the catch falls through to the fresh one
Restore(item) ==
  IF item = <<>> THEN FreshState
  ELSE IF SyntaxError(item) THEN FreshState
  ELSE IF "pgn" \notin DOMAIN item[1] THEN FreshState
  ELSE Restored(item[1])

\* the component renders: the JSX reads capturedPieces.black, capturedPieces.white
\* and gameHistory.length, and throws on an undefined one
Renders(state) == {"gameHistory", "capturedPieces"} \subseteq DOMAIN state

\* records an earlier run of the program left behind: a game with no move
\* played, an increment configured and both clocks nearly run down
SavedRecords ==
  { SaveData([FreshState EXCEPT !.timeControl =
                [white |-> time, black |-> time, increment |-> MaxIncrement]]) :
      time \in 1..MaxTime }

\* a record without some of its fields
Without(record, names) == [name \in DOMAIN record \ names |-> record[name]]

\* what else the item can hold at start: a text that is no JSON, and records
\* that lack a field
MalformedRecords ==
  {[syntaxError |-> TRUE]}
    \cup { Without(record, {name}) :
             record \in SavedRecords,
             name \in {"pgn", "gameHistory", "capturedPieces", "timeControl"} }

(***************************************************************************)
(* State updaters.  Each yields the next GameState together with what the  *)
(* handler did besides: whether it called saveGameState on that state,     *)
(* which object the timeControl field of the next state is ("same": the    *)
(* previous one, "new": a copy, "form": the form's object), and the        *)
(* "Time's up!" toasts it raised.                                          *)
(***************************************************************************)
Result(state, outcome, save, object, toasts) ==
  [state |-> state, outcome |-> outcome, save |-> save, object |-> object,
   toasts |-> toasts]

\* variant of capturedPiece: named with the colour of the capturing side
capturedPiece_OwnColour(move) ==
  IF move.color = "w" THEN <<"w", toUpperCase(move.captured)>>
  ELSE <<"b", toUpperCase(move.captured)>>

\* the piece a move captured, named as handleMove and undoMove name it
capturedPiece(move) ==
  IF move.color = "w" THEN <<"b", toUpperCase(move.captured)>>
  ELSE <<"w", toUpperCase(move.captured)>>

capturedBy(move) == IF move.color = "w" THEN "white" ELSE "black"

\* pieces[capturedBy].push(capturedPiece) when the move captured
push(pieces, move) ==
  IF move.captured = "-" THEN pieces
  ELSE [pieces EXCEPT ![capturedBy(move)] = Append(@, capturedPiece(move))]

(***************************************************************************)
(* handleMove.  The updater runs once per call; the array it pushes to is  *)
(* shared with prev, which is dropped when the updater returns.            *)
(***************************************************************************)
\* variant of newCapturedPieces: the piece goes to the other side's list
newCapturedPieces_OtherBucket(prev, move) ==
  IF move.captured = "-" THEN prev.capturedPieces
  ELSE [prev.capturedPieces EXCEPT
          ![IF move.color = "w" THEN "black" ELSE "white"] =
             Append(@, capturedPiece(move))]

\* "Update captured pieces"
newCapturedPieces(prev, move) == push(prev.capturedPieces, move)

\* variant of newTimeControl: credits whether or not the clock runs
newTimeControl_AlwaysCredits(prev, move) ==
  IF move.color = "w"
  THEN [prev.timeControl EXCEPT !.white = @ + prev.timeControl.increment]
  ELSE [prev.timeControl EXCEPT !.black = @ + prev.timeControl.increment]

\* "Add time increment"
newTimeControl(prev, move) ==
  IF prev.isTimerRunning
  THEN IF move.color = "w"
       THEN [prev.timeControl EXCEPT !.white = @ + prev.timeControl.increment]
       ELSE [prev.timeControl EXCEPT !.black = @ + prev.timeControl.increment]
  ELSE prev.timeControl

\* the playSound calls of handleMove for a move the engine accepted, in order
playSounds(move, newGame) ==
  <<IF move.captured # "-" THEN "capture" ELSE "move">>
    \o (IF isCheck(newGame) THEN <<"check">> ELSE <<>>)
    \o (IF isGameOver(newGame) THEN <<"gameEnd">> ELSE <<>>)

\* variant of handleMoveState: the selection is kept
handleMoveState_KeepsSelection(prev, newGame, move, sourceSquare, targetSquare) ==
  [prev EXCEPT
     !.game = newGame,
     !.gameHistory = Append(@, move.san),
     !.capturedPieces = newCapturedPieces(prev, move),
     !.lastMove = [from |-> sourceSquare, to |-> targetSquare],
     !.timeControl = newTimeControl(prev, move),
     !.isTimerRunning = prev.isTimerRunning /\ ~isGameOver(newGame)]

\* newState of handleMove for a move the engine accepted
handleMoveState(prev, newGame, move, sourceSquare, targetSquare) ==
  [prev EXCEPT
     !.game = newGame,
     !.gameHistory = Append(@, move.san),
     !.capturedPieces = newCapturedPieces(prev, move),
     !.lastMove = [from |-> sourceSquare, to |-> targetSquare],
     !.selectedSquare = NoSquare,
     !.legalMoves = {},
     !.timeControl = newTimeControl(prev, move),
     !.isTimerRunning = prev.isTimerRunning /\ ~isGameOver(newGame)]

\* variant of handleMoveUpdate: saves before it looks at the engine's answer
handleMoveUpdate_SavesFirst(prev, sourceSquare, targetSquare) ==
  LET newGame == Chess(fen(prev.game))
      move == FindMove(newGame, sourceSquare, targetSquare)
  IN  IF move = NoMove THEN Result(prev, "rejected", TRUE, "same", 0)
      ELSE Result(handleMoveState(prev, MakeMove(newGame, move), move,
                                  sourceSquare, targetSquare),
                  "committed", TRUE, "new", 0)

handleMoveUpdate(prev, sourceSquare, targetSquare) ==
  LET newGame == Chess(fen(prev.game))
      move == FindMove(newGame, sourceSquare, targetSquare)
  IN  IF move = NoMove THEN Result(prev, "rejected", FALSE, "same", 0)
      ELSE Result(handleMoveState(prev, MakeMove(newGame, move), move,
                                  sourceSquare, targetSquare),
                  "committed", TRUE, "new", 0)

(***************************************************************************)
(* The timer effect.                                                       *)
(***************************************************************************)
\* variant of decrement: no floor at 0
decrement_NoFloor(seconds) == seconds - 1

\* Math.max(0, seconds - 1)
decrement(seconds) == IF seconds - 1 > 0 THEN seconds - 1 ELSE 0

\* variant of tickUpdate: the clock stops with a second left
tickUpdate_StopsEarly(prev) ==
  LET white == decrement(prev.timeControl.white)
      black == decrement(prev.timeControl.black)
  IN  IF turn(prev.game) = "w"
      THEN Result([prev EXCEPT !.timeControl.white = white,
                               !.isTimerRunning = IF white <= 1 THEN FALSE ELSE @],
                  "ticked", FALSE, "same", IF white <= 1 THEN 1 ELSE 0)
      ELSE Result([prev EXCEPT !.timeControl.black = black,
                               !.isTimerRunning = IF black <= 1 THEN FALSE ELSE @],
                  "ticked", FALSE, "same", IF black <= 1 THEN 1 ELSE 0)

\* variant of tickUpdate: both sides lose the second
tickUpdate_BothSides(prev) ==
  LET white == decrement(prev.timeControl.white)
      black == decrement(prev.timeControl.black)
      expired == IF turn(prev.game) = "w" THEN white = 0 ELSE black = 0
  IN  Result([prev EXCEPT !.timeControl.white = white,
                          !.timeControl.black = black,
                          !.isTimerRunning = IF expired THEN FALSE ELSE @],
             "ticked", FALSE, "same", IF expired THEN 1 ELSE 0)

\* the updater run by the interval callback; it writes into prev.timeControl
tickUpdate(prev) ==
  LET white == decrement(prev.timeControl.white)
      black == decrement(prev.timeControl.black)
  IN  IF turn(prev.game) = "w"
      THEN Result([prev EXCEPT !.timeControl.white = white,
                               !.isTimerRunning = IF white = 0 THEN FALSE ELSE @],
                  "ticked", FALSE, "same", IF white = 0 THEN 1 ELSE 0)
      ELSE Result([prev EXCEPT !.timeControl.black = black,
                               !.isTimerRunning = IF black = 0 THEN FALSE ELSE @],
                  "ticked", FALSE, "same", IF black = 0 THEN 1 ELSE 0)

(***************************************************************************)
(* The other handlers.                                                     *)
(***************************************************************************)
\* variant of handleSquareClickUpdate: a piece of either side is selected
handleSquareClickUpdate_AnyPiece(prev, square) ==
  LET piece == get(prev.game, square)
  IN  IF prev.selectedSquare = square
      THEN Result([prev EXCEPT !.selectedSquare = NoSquare, !.legalMoves = {}],
                  "deselected", FALSE, "same", 0)
      ELSE IF prev.selectedSquare # NoSquare /\ square \in prev.legalMoves
      THEN handleMoveUpdate(prev, prev.selectedSquare, square)
      ELSE IF piece # <<>>
      THEN Result([prev EXCEPT !.selectedSquare = square,
                               !.legalMoves = moves(prev.game, square)],
                  "selected", FALSE, "same", 0)
      ELSE Result(prev, "ignored", FALSE, "same", 0)

handleSquareClickUpdate(prev, square) ==
  LET piece == get(prev.game, square)
  IN  IF prev.selectedSquare = square
      THEN Result([prev EXCEPT !.selectedSquare = NoSquare, !.legalMoves = {}],
                  "deselected", FALSE, "same", 0)
      ELSE IF prev.selectedSquare # NoSquare /\ square \in prev.legalMoves
      THEN handleMoveUpdate(prev, prev.selectedSquare, square)
      ELSE IF piece # <<>> /\ piece[1] = turn(prev.game)
      THEN Result([prev EXCEPT !.selectedSquare = square,
                               !.legalMoves = moves(prev.game, square)],
                  "selected", FALSE, "same", 0)
      ELSE Result(prev, "ignored", FALSE, "same", 0)

\* resetGame reads isFlipped, soundEnabled and boardTheme from the GameState
\* its memoized callback closed over; theme is that callback's boardTheme
resetGameUpdate(prev, theme) ==
  Result([game |-> Chess(DEFAULT_POSITION),
          gameHistory |-> <<>>,
          capturedPieces |-> [white |-> <<>>, black |-> <<>>],
          lastMove |-> NoLastMove,
          selectedSquare |-> NoSquare,
          legalMoves |-> {},
          isFlipped |-> prev.isFlipped,
          soundEnabled |-> prev.soundEnabled,
          timeControl |-> initialTimeControl,
          isTimerRunning |-> FALSE,
          boardTheme |-> theme],
         "reset", TRUE, "new", 0)

RECURSIVE recalculate(_, _)
\* "Recalculate captured pieces": one push per capture of the replayed history
recalculate(pieces, history) ==
  IF history = <<>> THEN pieces
  ELSE recalculate(push(pieces, Head(history)), Tail(history))

\* variant of undoMoveState: takes back the increment of the undone move
undoMoveState_RefundsIncrement(prev, newGame, newHistory) ==
  LET history == newGame.history
  IN  [prev EXCEPT
         !.game = newGame,
         !.gameHistory = newHistory,
         !.capturedPieces = recalculate([white |-> <<>>, black |-> <<>>], history),
         !.lastMove =
            IF Len(history) > 0
            THEN [from |-> history[Len(history)].from, to |-> history[Len(history)].to]
            ELSE NoLastMove,
         !.selectedSquare = NoSquare,
         !.legalMoves = {},
         !.timeControl =
            IF ~prev.isTimerRunning THEN @
            ELSE IF turn(prev.game) = "b"
                 THEN [@ EXCEPT !.white = @ - prev.timeControl.increment]
                 ELSE [@ EXCEPT !.black = @ - prev.timeControl.increment]]

\* variant of undoMoveState: the selection is left as it was
undoMoveState_KeepsSelection(prev, newGame, newHistory) ==
  LET history == newGame.history
  IN  [prev EXCEPT
         !.game = newGame,
         !.gameHistory = newHistory,
         !.capturedPieces = recalculate([white |-> <<>>, black |-> <<>>], history),
         !.lastMove =
            IF Len(history) > 0
            THEN [from |-> history[Len(history)].from, to |-> history[Len(history)].to]
            ELSE NoLastMove]

\* variant of undoMoveState: lastMove is left as it was
undoMoveState_KeepsLastMove(prev, newGame, newHistory) ==
  [prev EXCEPT
     !.game = newGame,
     !.gameHistory = newHistory,
     !.capturedPieces = recalculate([white |-> <<>>, black |-> <<>>], newGame.history),
     !.selectedSquare = NoSquare,
     !.legalMoves = {}]

\* newState of undoMove, from the game replayed without the last move
undoMoveState(prev, newGame, newHistory) ==
  LET history == newGame.history
  IN  [prev EXCEPT
         !.game = newGame,
         !.gameHistory = newHistory,
         !.capturedPieces = recalculate([white |-> <<>>, black |-> <<>>], history),
         !.lastMove =
            IF Len(history) > 0
            THEN [from |-> history[Len(history)].from, to |-> history[Len(history)].to]
            ELSE NoLastMove,
         !.selectedSquare = NoSquare,
         !.legalMoves = {}]

\* newHistory.pop()
pop(history) == SubSeq(history, 1, Len(history) - 1)

\* variant of undoMoveUpdate: the last entry stays in gameHistory
undoMoveUpdate_KeepsHistory(prev) ==
  IF Len(prev.gameHistory) = 0 THEN Result(prev, "ignored", FALSE, "same", 0)
  ELSE
    LET newGame == Replay(Chess(DEFAULT_POSITION), pop(prev.gameHistory))
    IN  Result(undoMoveState(prev, newGame, prev.gameHistory), "undone", TRUE, "same", 0)

\* variant of undoMoveUpdate: no test for the empty history
undoMoveUpdate_NoGuard(prev) ==
  LET newHistory == pop(prev.gameHistory)
      newGame == Replay(Chess(DEFAULT_POSITION), newHistory)
  IN  Result(undoMoveState(prev, newGame, newHistory), "undone", TRUE, "same", 0)

\* variant of undoMoveUpdate: takes the move back on the current Chess object
\* instead of replaying the history
undoMoveUpdate_EngineUndo(prev) ==
  IF Len(prev.gameHistory) = 0 THEN Result(prev, "ignored", FALSE, "same", 0)
  ELSE
    LET newHistory == pop(prev.gameHistory)
        newGame ==
          IF prev.game.history = <<>> THEN prev.game
          ELSE [prev.game EXCEPT
                  !.fen = prev.game.history[Len(prev.game.history)].fen,
                  !.history = pop(@)]
    IN  Result(undoMoveState(prev, newGame, newHistory), "undone", TRUE, "same", 0)

undoMoveUpdate(prev) ==
  IF Len(prev.gameHistory) = 0 THEN Result(prev, "ignored", FALSE, "same", 0)
  ELSE
    LET newHistory == pop(prev.gameHistory)
        newGame == Replay(Chess(DEFAULT_POSITION), newHistory)
    IN  Result(undoMoveState(prev, newGame, newHistory), "undone", TRUE, "same", 0)

\* variant of flipBoardUpdate: the flip is not saved
flipBoardUpdate_NoSave(prev) ==
  Result([prev EXCEPT !.isFlipped = ~prev.isFlipped], "flipped", FALSE, "same", 0)

flipBoardUpdate(prev) ==
  Result([prev EXCEPT !.isFlipped = ~prev.isFlipped], "flipped", TRUE, "same", 0)

\* variant of toggleSoundUpdate: the sound is switched on, never off
toggleSoundUpdate_SwitchOn(prev) ==
  Result([prev EXCEPT !.soundEnabled = TRUE], "toggled", TRUE, "same", 0)

toggleSoundUpdate(prev) ==
  Result([prev EXCEPT !.soundEnabled = ~prev.soundEnabled], "toggled", TRUE, "same", 0)

toggleTimerUpdate(prev) ==
  Result([prev EXCEPT !.isTimerRunning = ~prev.isTimerRunning],
         "toggled", FALSE, "same", 0)

updateTimeControlUpdate(prev, timeControl) ==
  Result([prev EXCEPT !.timeControl = timeControl], "updated", TRUE, "form", 0)

updateBoardThemeUpdate(prev, theme) ==
  Result([prev EXCEPT !.boardTheme = theme], "updated", TRUE, "same", 0)

\* GameEndDialog: the title and the message shown for a finished game
getGameResult(game) ==
  IF isCheckmate(game)
  THEN [title |-> "Checkmate!",
        message |-> IF turn(game) = "w" THEN "Black wins the game!"
                    ELSE "White wins the game!"]
  ELSE IF isStalemate(game)
  THEN [title |-> "Stalemate!", message |-> "The game is drawn by stalemate"]
  ELSE IF isDraw(game)
  THEN [title |-> "Draw!",
        message |-> IF isThreefoldRepetition(game)
                    THEN "Draw by threefold repetition"
                    ELSE IF isInsufficientMaterial(game)
                    THEN "Draw by insufficient material"
                    ELSE "The game is drawn"]
  ELSE [title |-> "Game Over", message |-> "The game has ended"]

\* the text exportPGN puts in the downloaded file
exportPGN(state) == pgn(state.game)

(***************************************************************************)
(* What an updater leaves behind in the snapshot it was given.  The copies *)
(* it takes are shallow: the arrays of capturedPieces and the timeControl  *)
(* object of the new state are those of prev.                              *)
(***************************************************************************)
\* prev after handleMove's updater ran on it: newCapturedPieces[capturedBy] is
\* prev's own array, and push writes into it
handleMovePrev(prev, sourceSquare, targetSquare) ==
  LET move == FindMove(Chess(fen(prev.game)), sourceSquare, targetSquare)
  IN  IF move = NoMove THEN prev
      ELSE [prev EXCEPT !.capturedPieces = push(@, move)]

\* prev after the tick's updater ran on it: newState.timeControl is prev's own
\* object, and the assignment writes into it
tickPrev(prev) ==
  [prev EXCEPT !.timeControl = tickUpdate(prev).state.timeControl]

(***************************************************************************)
(* Transitions.                                                            *)
(***************************************************************************)
\* the component is mounted: no state updater has thrown while rendering
Mounted == last.outcome # "crashed"

\* the timer effect runs again after a render that changed one of its
\* dependencies: isTimerRunning, or the game object, which every committed
\* move, undo and reset replaces
Restarts(prev, result) ==
  \/ result.outcome \in {"committed", "undone", "reset"}
  \/ result.state.isTimerRunning # prev.isTimerRunning

\* the seconds left on the two sides together
Total(timeControl) == timeControl.white + timeControl.black

\* one handler run: the GameState is replaced, saveGameState writes the item,
\* the form keeps seeing a timeControl object it shares, and resetGame is
\* memoized again on a render that changed isFlipped or soundEnabled
Step(op, r) ==
  LET result == r
      state == result.state
  IN  /\ Renders(gameState) /\ Mounted
      /\ gameState' = state
      /\ storage' = IF result.save THEN <<SaveData(state)>> ELSE storage
      /\ localShared' = CASE result.object = "same" -> localShared
                          [] result.object = "new" -> FALSE
                          [] result.object = "form" -> TRUE
      /\ localTimeControl' = IF localShared /\ result.object = "same"
                             THEN state.timeControl ELSE localTimeControl
      /\ resetGameTheme' = IF \/ state.isFlipped # gameState.isFlipped
                              \/ state.soundEnabled # gameState.soundEnabled
                           THEN state.boardTheme ELSE resetGameTheme
      /\ timeUpToasts' = IF result.outcome = "reset" THEN 0
                         ELSE timeUpToasts + result.toasts
      /\ played' = IF result.outcome = "committed" THEN played + 1 ELSE played
      /\ intervalAge' = IF result.outcome = "ticked" \/ Restarts(gameState, result)
                        THEN 0 ELSE intervalAge
      /\ owed' = IF ~state.isTimerRunning \/ ~gameState.isTimerRunning THEN 0
                 ELSE IF result.outcome = "ticked"
                 THEN owed + (Halves - intervalAge)
                           - Halves * (Total(gameState.timeControl) - Total(state.timeControl))
                 ELSE owed
      /\ last' = [op |-> op, outcome |-> result.outcome, saved |-> result.save,
                  toasts |-> result.toasts]

handleMoveOn(sourceSquare, targetSquare) ==
  /\ played < MaxMoves
  /\ Step("handleMove", handleMoveUpdate(gameState, sourceSquare, targetSquare))
  /\ UNCHANGED ticks

handleMove ==
  \E sourceSquare \in Squares, targetSquare \in Squares :
    handleMoveOn(sourceSquare, targetSquare)

\* the squares a knight and a king go back and forth on
RepetitionSquares == {"a2", "a3", "b3", "c1"}

\* handleMove on those squares, for games long enough to repeat a position
handleMoveBetween ==
  \E sourceSquare \in RepetitionSquares, targetSquare \in RepetitionSquares :
    /\ played < MaxPlies
    /\ Step("handleMove", handleMoveUpdate(gameState, sourceSquare, targetSquare))
    /\ UNCHANGED ticks

handleSquareClick ==
  \E square \in Squares :
    /\ played < MaxMoves
    /\ Step("handleSquareClick", handleSquareClickUpdate(gameState, square))
    /\ UNCHANGED ticks

\* the interval set by the timer effect is live exactly while the effect's
\* condition holds
tick ==
  /\ gameState.isTimerRunning /\ ~isGameOver(gameState.game)
  /\ ticks < MaxTicks
  /\ Step("tick", tickUpdate(gameState))
  /\ ticks' = ticks + 1

\* the interval callback, as often as the interval fires while it is live
tickOn ==
  /\ gameState.isTimerRunning /\ ~isGameOver(gameState.game)
  /\ Step("tick", tickUpdate(gameState))
  /\ UNCHANGED ticks

\* the interval callback fires once more after the handler that stopped the
\* clock (a pause, or the tick that reached 0) and before the effect's cleanup
\* has cleared the interval: its updater runs on the stopped session
lateTick ==
  /\ \/ last.op = "toggleTimer" /\ ~isGameOver(gameState.game)
     \/ last.op = "tick"
  /\ ~gameState.isTimerRunning
  /\ ticks < MaxTicks
  /\ Step("lateTick", tickUpdate(gameState))
  /\ ticks' = ticks + 1

\* half a second passes while the interval is live and its callback is not
\* yet due
elapse ==
  /\ Renders(gameState) /\ Mounted
  /\ gameState.isTimerRunning /\ ~isGameOver(gameState.game)
  /\ intervalAge + 1 < Halves
  /\ intervalAge' = intervalAge + 1
  /\ owed' = owed + 1
  /\ last' = [op |-> "elapse", outcome |-> "waited", saved |-> FALSE, toasts |-> 0]
  /\ UNCHANGED <<gameState, storage, localTimeControl, localShared, resetGameTheme,
                 timeUpToasts, ticks, played>>

\* the interval callback runs when its period is over
timedTick ==
  /\ intervalAge + 1 = Halves
  /\ tick

resetGame ==
  /\ Step("resetGame", resetGameUpdate(gameState, resetGameTheme))
  /\ UNCHANGED ticks

undoMove ==
  /\ Step("undoMove", undoMoveUpdate(gameState))
  /\ UNCHANGED ticks

flipBoard ==
  /\ Step("flipBoard", flipBoardUpdate(gameState))
  /\ UNCHANGED ticks

toggleSound ==
  /\ Step("toggleSound", toggleSoundUpdate(gameState))
  /\ UNCHANGED ticks

toggleTimer ==
  /\ Step("toggleTimer", toggleTimerUpdate(gameState))
  /\ UNCHANGED ticks

updateBoardTheme ==
  \E theme \in BOARD_THEMES :
    /\ Step("updateBoardTheme", updateBoardThemeUpdate(gameState, theme))
    /\ UNCHANGED ticks

\* SettingsDialog: choosing a preset replaces the form's time control
handleTimePresetChange ==
  \E preset \in TIME_PRESETS :
    /\ Renders(gameState) /\ Mounted
    /\ localTimeControl' = [white |-> preset.time, black |-> preset.time,
                            increment |-> preset.increment]
    /\ localShared' = FALSE
    /\ last' = [op |-> "handleTimePresetChange", outcome |-> "edited",
                saved |-> FALSE, toasts |-> 0]
    /\ UNCHANGED <<gameState, storage, resetGameTheme, timeUpToasts, ticks,
                   intervalAge, owed, played>>

\* SettingsDialog: Apply hands the form's time control to updateTimeControl
handleApplySettings ==
  /\ Step("handleApplySettings", updateTimeControlUpdate(gameState, localTimeControl))
  /\ UNCHANGED ticks

Init ==
  /\ storage \in {<<>>} \cup {<<record>> : record \in SavedRecords}
  /\ gameState = Restore(storage)
  /\ localTimeControl = gameState.timeControl
  /\ localShared = TRUE
  /\ resetGameTheme = gameState.boardTheme
  /\ timeUpToasts = 0
  /\ ticks = 0
  /\ intervalAge = 0
  /\ owed = 0
  /\ played = 0
  /\ last = [op |-> "mount", outcome |-> "mounted", saved |-> FALSE, toasts |-> 0]

\* a handler that saves, run while localStorage.setItem throws (quota reached,
\* storage disabled).  saveGameState does not catch: inside a state updater the
\* exception leaves the updater before it returns newState and is thrown
\* while rendering, which unmounts the component; resetGame calls
\* saveGameState after setGameState(newState), in the event handler, so its
\* state is committed and only the item and the toast are missing
saveFails(op, r) ==
  /\ Renders(gameState) /\ Mounted
  /\ r.save
  /\ IF op = "resetGame"
     THEN /\ gameState' = r.state
          /\ localShared' = FALSE
          /\ timeUpToasts' = 0
          /\ last' = [op |-> op, outcome |-> r.outcome, saved |-> FALSE, toasts |-> 0]
     ELSE /\ gameState' = gameState
          /\ localShared' = localShared
          /\ timeUpToasts' = timeUpToasts
          /\ last' = [op |-> op, outcome |-> "crashed", saved |-> FALSE, toasts |-> 0]
  /\ UNCHANGED <<storage, localTimeControl, resetGameTheme, ticks, intervalAge,
                 owed, played>>

\* any of the saving handlers meets a failing write
writeFailure ==
  \/ \E sourceSquare \in Squares, targetSquare \in Squares :
       /\ played < MaxMoves
       /\ saveFails("handleMove", handleMoveUpdate(gameState, sourceSquare, targetSquare))
  \/ saveFails("undoMove", undoMoveUpdate(gameState))
  \/ saveFails("resetGame", resetGameUpdate(gameState, resetGameTheme))
  \/ saveFails("flipBoard", flipBoardUpdate(gameState))
  \/ saveFails("toggleSound", toggleSoundUpdate(gameState))
  \/ saveFails("handleApplySettings", updateTimeControlUpdate(gameState, localTimeControl))
  \/ \E theme \in BOARD_THEMES :
       saveFails("updateBoardTheme", updateBoardThemeUpdate(gameState, theme))

\* the start on an item of any kind
InitStored ==
  /\ storage \in {<<>>} \cup {<<record>> : record \in SavedRecords \cup MalformedRecords}
  /\ gameState = Restore(storage)
  /\ localTimeControl = gameState.timeControl
  /\ localShared = TRUE
  /\ resetGameTheme = gameState.boardTheme
  /\ timeUpToasts = 0
  /\ ticks = 0
  /\ intervalAge = 0
  /\ owed = 0
  /\ played = 0
  /\ last = [op |-> "mount", outcome |-> "mounted", saved |-> FALSE, toasts |-> 0]

Next ==
  \/ handleMove
  \/ handleSquareClick
  \/ tick
  \/ resetGame
  \/ undoMove
  \/ flipBoard
  \/ toggleSound
  \/ toggleTimer
  \/ updateBoardTheme
  \/ handleTimePresetChange
  \/ handleApplySettings

Spec == Init /\ [][Next]_vars

\* the handlers that move pieces and run the clock
NextPlay ==
  \/ handleMove
  \/ tick
  \/ resetGame
  \/ undoMove
  \/ toggleTimer

SpecPlay == Init /\ [][NextPlay]_vars

\* those handlers together with the time control of the settings form
NextClock ==
  \/ NextPlay
  \/ handleTimePresetChange
  \/ handleApplySettings

SpecClock == Init /\ [][NextClock]_vars

\* the handlers of the board, the preferences and the reset, without the clock
NextBoard ==
  \/ handleMove
  \/ handleSquareClick
  \/ resetGame
  \/ flipBoard
  \/ toggleSound
  \/ updateBoardTheme

SpecBoard == Init /\ [][NextBoard]_vars

\* every handler that saves the session, and the clicks
NextSession ==
  \/ NextBoard
  \/ undoMove
  \/ handleTimePresetChange
  \/ handleApplySettings

SpecSession == Init /\ [][NextSession]_vars

\* the board handlers on a session started from an item of any kind
SpecRestore == InitStored /\ [][NextBoard]_vars

\* the board handlers with writes that may fail
NextWriteFailure ==
  \/ NextBoard
  \/ writeFailure

SpecWriteFailure == Init /\ [][NextWriteFailure]_vars


\* the play handlers with an interval callback that may fire after the stop
NextInFlight ==
  \/ NextPlay
  \/ lateTick

SpecInFlight == Init /\ [][NextInFlight]_vars

\* the play handlers with the interval callback on its period of one second
NextCadence ==
  \/ handleMove
  \/ undoMove
  \/ resetGame
  \/ toggleTimer
  \/ elapse
  \/ timedTick

SpecCadence == Init /\ [][NextCadence]_vars

\* long games on a few squares, with the clock switch and the undo
NextRepetition ==
  \/ handleMoveBetween
  \/ toggleTimer
  \/ undoMove

SpecRepetition == Init /\ [][NextRepetition]_vars

\* the play handlers and the Apply button of a settings form that is never
\* edited
NextApply ==
  \/ NextPlay
  \/ handleApplySettings

SpecApply == Init /\ [][NextApply]_vars

\* a session restored from a stored item: its clocks are short
InitRestored == Init /\ storage # <<>>

\* the clock switch, used on a game that has not run out of time too often
toggleTimerSome ==
  /\ timeUpToasts < MaxTicks
  /\ toggleTimer

\* moves, the clock switch and an interval that keeps firing while it is live
NextExpiry ==
  \/ handleMove
  \/ toggleTimerSome
  \/ tickOn

SpecExpiry == InitRestored /\ [][NextExpiry]_vars /\ WF_vars(tickOn)
(***************************************************************************)
(* Properties.                                                             *)
(***************************************************************************)
\* the engine has no legal move from the one square to the other
Rejects(game, from, to) == to \notin moves(game, from)

\* C1: handleMove with a pair the engine rejects (empty source square, piece
\* of the side not to move, or target that is no legal destination) leaves
\* every field of the GameState unchanged and writes nothing to storage.
C1_RejectedMoveChangesNothing ==
  [][last'.op = "handleMove"
       => \/ /\ gameState' = gameState
             /\ storage' = storage
             /\ ~last'.saved
          \/ ~ \E from \in Squares, to \in Squares :
                 Rejects(gameState.game, from, to) /\ handleMoveOn(from, to)]_vars

\* a rejected handleMove has run on a session with moves and a running clock
C1_Witness ==
  /\ last.op = "handleMove" /\ last.outcome = "rejected"
  /\ Len(gameState.gameHistory) > 0
  /\ gameState.isTimerRunning

\* a "Time's up!" toast has been raised in the current game
Expired == timeUpToasts > 0

\* C2: once a tick has brought a side's time to 0, until the game is reset
\* every handleMove leaves the GameState unchanged and the clock stays
\* stopped.
C2_ExpiryIsTerminal ==
  [][(Expired /\ Expired')
       => /\ (last'.op = "handleMove" => gameState' = gameState)
          /\ ~gameState'.isTimerRunning]_vars

\* C3: both remaining times are at least 0 in every reachable state.
C3_ClockNeverNegative ==
  /\ gameState.timeControl.white >= 0
  /\ gameState.timeControl.black >= 0

\* a tick has run on a side whose time was already 0
C3_Witness ==
  /\ last.op = "tick"
  /\ timeUpToasts >= 2
  /\ gameState.timeControl.white = 0

\* C4: the tick that brings the side to move to 0 stops the clock, and the
\* "Time's up!" event is raised once in a game, never a second time.
C4_TimeExpiredOnce ==
  /\ timeUpToasts <= 1
  /\ (last.op = "tick" /\ last.toasts > 0 => ~gameState.isTimerRunning)

\* the side that made the move leading to a state, as a timeControl field
Mover(state) == IF turn(state.game) = "w" THEN "white" ELSE "black"
Other(side) == IF side = "white" THEN "black" ELSE "white"

\* C5: a committed move adds the increment to the mover's time exactly when
\* the clock was running before the move, and never changes the opponent's
\* time or the increment.
C5_IncrementIffRunning ==
  [][(last'.op = "handleMove" /\ last'.outcome = "committed")
       => LET mover == Mover(gameState)
              before == gameState.timeControl
              after == gameState'.timeControl
          IN  /\ after[mover] = before[mover]
                   + (IF gameState.isTimerRunning THEN before.increment ELSE 0)
              /\ after[Other(mover)] = before[Other(mover)]
              /\ after.increment = before.increment]_vars

\* a move was committed with the clock running and a positive increment
C5_Witness ==
  /\ last.op = "handleMove" /\ last.outcome = "committed"
  /\ gameState.isTimerRunning
  /\ gameState.timeControl.increment > 0
  /\ played = 1 /\ ticks = 0
  /\ gameState.timeControl.white = MaxTime + gameState.timeControl.increment

\* C6: a committed move into a position that is game over for the engine
\* stops the clock, and from then on every handleMove leaves the GameState
\* unchanged.
C6_GameOverIsFinal ==
  [][/\ (last'.op = "handleMove" /\ last'.outcome = "committed"
           /\ isGameOver(gameState'.game)) => ~gameState'.isTimerRunning
     /\ (isGameOver(gameState.game) /\ last'.op = "handleMove")
           => gameState' = gameState]_vars

RECURSIVE UndoTimes(_, _)
\* the GameState after n calls of undoMove
UndoTimes(state, n) ==
  IF n = 0 THEN state ELSE UndoTimes(undoMoveUpdate(state).state, n - 1)

\* C7: undoMove called as many times as the history is long gives the initial
\* position, an empty history, no captured pieces and no last move.
C7_UndoAllRestoresStart ==
  LET start == UndoTimes(gameState, Len(gameState.gameHistory))
  IN  /\ fen(start.game) = DEFAULT_POSITION
      /\ start.game.history = <<>>
      /\ start.gameHistory = <<>>
      /\ start.capturedPieces = [white |-> <<>>, black |-> <<>>]
      /\ start.lastMove = NoLastMove

\* a session three moves deep with captures by both sides
C7_Witness ==
  /\ Len(gameState.gameHistory) >= 3
  /\ gameState.capturedPieces.white # <<>>
  /\ gameState.capturedPieces.black # <<>>

\* C8: the captured pieces kept move by move equal, piece for piece and in
\* order, the captures of the moves in the history as a replay finds them.
C8_CapturedPiecesMatchHistory ==
  gameState.capturedPieces =
    recalculate([white |-> <<>>, black |-> <<>>],
                Replay(Chess(DEFAULT_POSITION), gameState.gameHistory).history)

\* a move has just put a second piece on one side's list
C8_Witness ==
  /\ last.op = "handleMove" /\ last.outcome = "committed"
  /\ Len(gameState.capturedPieces.white) = 2

\* C9: undoMove changes neither remaining time, nor the increment, nor the
\* running flag.
C9_UndoKeepsClock ==
  [][last'.op = "undoMove"
       => /\ gameState'.timeControl = gameState.timeControl
          /\ gameState'.isTimerRunning = gameState.isTimerRunning]_vars

\* a move credited with an increment has been undone while the clock runs
C9_Witness ==
  /\ last.op = "undoMove" /\ last.outcome = "undone"
  /\ gameState.isTimerRunning
  /\ gameState.gameHistory = <<>>
  /\ played = 1 /\ ticks = 0
  /\ gameState.timeControl.white = MaxTime + gameState.timeControl.increment
  /\ gameState.timeControl.increment > 0

\* C10: undoMove on an empty history changes no field of the GameState and
\* writes nothing to storage.
C10_UndoOnEmptyHistory ==
  [][(last'.op = "undoMove" /\ gameState.gameHistory = <<>>)
       => /\ gameState' = gameState
          /\ storage' = storage
          /\ ~last'.saved]_vars

\* undoMove has run on an empty history
C10_Witness ==
  /\ last.op = "undoMove" /\ last.outcome = "ignored"
  /\ gameState.gameHistory = <<>>

\* C11: resetGame keeps isFlipped, soundEnabled and boardTheme as they were
\* when it was called and gives the initial position, an empty history, no
\* captured pieces, no last move and no selection.
C11_ResetKeepsPreferences ==
  [][last'.op = "resetGame"
       => /\ gameState'.isFlipped = gameState.isFlipped
          /\ gameState'.soundEnabled = gameState.soundEnabled
          /\ gameState'.boardTheme = gameState.boardTheme
          /\ fen(gameState'.game) = DEFAULT_POSITION
          /\ gameState'.gameHistory = <<>>
          /\ gameState'.capturedPieces = [white |-> <<>>, black |-> <<>>]
          /\ gameState'.lastMove = NoLastMove
          /\ gameState'.selectedSquare = NoSquare
          /\ gameState'.legalMoves = {}]_vars

\* C12: after resetGame the clock is stopped and the time control is the
\* configured one: the one just applied through the settings form, and the
\* default of 10 minutes without increment when nothing was ever saved.
C12_ResetRestoresConfiguredClock ==
  [][last'.op = "resetGame"
       => /\ ~gameState'.isTimerRunning
          /\ (last.op = "handleApplySettings"
                => gameState'.timeControl = gameState.timeControl)
          /\ (storage = <<>> => gameState'.timeControl = initialTimeControl)]_vars

\* the item is missing, is no JSON, or lacks the game record, the move
\* history or the captured pieces
BadRecord(item) ==
  \/ item = <<>>
  \/ SyntaxError(item)
  \/ ~ ({"pgn", "gameHistory", "capturedPieces"} \subseteq DOMAIN item[1])

\* C13: a start on a missing, unparsable or malformed item gives the fresh
\* session, and never a session with undefined fields that cannot render.
C13_BadRecordGivesFreshSession ==
  (last.op = "mount" /\ BadRecord(storage))
    => gameState = FreshState /\ Renders(gameState)

\* C14: a failing write never stops the transition: no handler ends with the
\* component unmounted, and a reset whose write failed gives the session a
\* reset gives when the write succeeds.
C14_WriteFailureStillCommits ==
  [][/\ last'.outcome # "crashed"
     /\ (last'.op = "resetGame"
           => gameState' = resetGameUpdate(gameState, resetGameTheme).state)]_vars


\* the last handler run committed one of the transitions that change the
\* session: a move, an undo, a reset, a flip, the sound, the time control or
\* the board theme
CommittedTransition ==
  \/ last.outcome \in {"committed", "undone", "reset", "flipped", "updated"}
  \/ last.op = "toggleSound"

\* C15: right after every committed transition the stored item holds the
\* record of the session in memory: its game record, history, captures, last
\* move, orientation, sound, time control and theme.
C15_RecordEqualsSession ==
  CommittedTransition
    => /\ storage # <<>>
       /\ DOMAIN storage[1] = SaveFields
       /\ storage[1].pgn = pgn(gameState.game)
       /\ storage[1].gameHistory = gameState.gameHistory
       /\ storage[1].capturedPieces = gameState.capturedPieces
       /\ storage[1].lastMove = gameState.lastMove
       /\ storage[1].isFlipped = gameState.isFlipped
       /\ storage[1].soundEnabled = gameState.soundEnabled
       /\ storage[1].timeControl = gameState.timeControl
       /\ storage[1].boardTheme = gameState.boardTheme

\* an undo has just been saved on a flipped board with another theme and a
\* time control applied through the settings form
C15_Witness ==
  /\ last.op = "undoMove" /\ last.outcome = "undone"
  /\ gameState.isFlipped
  /\ gameState.boardTheme # "classic"
  /\ gameState.timeControl.white \notin {initialTimeControl.white, MaxTime}
  /\ Len(gameState.gameHistory) > 0
  /\ storage = <<SaveData(gameState)>>

\* C16: the session restored from the item a committed transition wrote has
\* the position, history, captures, last move, orientation, sound, time
\* control and theme of the session that wrote it, a stopped clock and no
\* selection.
C16_RestoreGivesSavedSession ==
  CommittedTransition
    => LET restored == Restore(storage)
       IN  /\ fen(restored.game) = fen(gameState.game)
           /\ restored.gameHistory = gameState.gameHistory
           /\ restored.capturedPieces = gameState.capturedPieces
           /\ restored.lastMove = gameState.lastMove
           /\ restored.isFlipped = gameState.isFlipped
           /\ restored.soundEnabled = gameState.soundEnabled
           /\ restored.timeControl = gameState.timeControl
           /\ restored.boardTheme = gameState.boardTheme
           /\ ~restored.isTimerRunning
           /\ restored.selectedSquare = NoSquare
           /\ restored.legalMoves = {}

\* a second move with a capture has just been saved with the sound off: the
\* game record starts from a position that is not the default one
C16_Witness ==
  /\ last.outcome = "committed"
  /\ Len(gameState.gameHistory) >= 2
  /\ gameState.game.setup # DEFAULT_POSITION
  /\ gameState.capturedPieces # [white |-> <<>>, black |-> <<>>]
  /\ ~gameState.soundEnabled
  /\ fen(Restore(storage).game) = fen(gameState.game)

\* C17: the game record of the engine object, loaded into a new object, gives
\* the same side to move and the same legal destinations for every square.
C17_PgnRoundTrip ==
  LET loaded == loadPgn(pgn(gameState.game))
  IN  /\ turn(loaded) = turn(gameState.game)
      /\ \A square \in Squares :
            moves(loaded, square) = moves(gameState.game, square)

\* the object of a move played from a position other than the default one,
\* with black to move and a legal destination on the board
C17_Witness ==
  /\ gameState.game.setup # DEFAULT_POSITION
  /\ Len(gameState.game.history) = 1
  /\ turn(gameState.game) = "b"
  /\ \E square \in Squares : moves(gameState.game, square) # {}
  /\ fen(loadPgn(pgn(gameState.game))) = fen(gameState.game)

\* C18: starting the clock is a no-op once the game is over: toggleTimer on
\* a finished game with a stopped clock leaves the clock stopped.
C18_NoStartWhenGameOver ==
  [][(/\ last'.op = "toggleTimer"
      /\ isGameOver(gameState.game)
      /\ ~gameState.isTimerRunning)
       => ~gameState'.isTimerRunning]_vars

\* C19: a tick that runs after the clock stopped is discarded: it changes no
\* remaining time and announces no expiry.
C19_LateTickDiscarded ==
  [][last'.op = "lateTick"
       => /\ gameState'.timeControl = gameState.timeControl
          /\ last'.toasts = 0]_vars

\* the piece on the square belongs to the side to move
OwnPiece(game, square) ==
  get(game, square) # <<>> /\ get(game, square)[1] = turn(game)

C21_CommittedMoveRecord ==
  [][last'.outcome = "committed"
       => LET before == gameState.gameHistory
              after == gameState'.gameHistory
          IN  /\ Len(after) = Len(before) + 1
              /\ SubSeq(after, 1, Len(before)) = before
              /\ \E from \in Squares, to \in Squares :
                    /\ to \in moves(gameState.game, from)
                    /\ after[Len(after)] = FindMove(gameState.game, from, to).san
                    /\ gameState'.lastMove = [from |-> from, to |-> to]
              /\ gameState'.selectedSquare = NoSquare
              /\ gameState'.legalMoves = {}
              /\ (~gameState.isTimerRunning
                    => gameState'.timeControl = gameState.timeControl)]_vars

\* a second move has just been committed by handleMove with the clock
\* stopped on a time control that has an increment
C21_Witness ==
  /\ last.op = "handleMove" /\ last.outcome = "committed"
  /\ Len(gameState.gameHistory) = 2
  /\ gameState.lastMove # NoLastMove
  /\ gameState.selectedSquare = NoSquare
  /\ ~gameState.isTimerRunning
  /\ gameState.timeControl = [white |-> MaxTime, black |-> MaxTime,
                              increment |-> MaxIncrement]

\* C22: while the clock runs the ticks remove one second for every whole
\* second that passes, whatever moves and undos are committed meanwhile:
\* less than a second of running time is ever left without its tick.
C22_OneTickPerSecond ==
  gameState.isTimerRunning => owed \in 0..(Halves - 1)

\* C23: a tick of the running clock takes one second, floored at 0, from the
\* side to move and leaves the other side's time, the increment, the
\* position, the history, the captured pieces, the last move and the
\* preferences as they were.
C23_TickFrame ==
  [][last'.op = "tick"
       => LET side == Mover(gameState)
              time == gameState.timeControl[side]
          IN  /\ gameState.isTimerRunning
              /\ gameState'.timeControl[side] = IF time > 1 THEN time - 1 ELSE 0
              /\ gameState'.timeControl[Other(side)] = gameState.timeControl[Other(side)]
              /\ gameState'.timeControl.increment = gameState.timeControl.increment
              /\ gameState'.game = gameState.game
              /\ gameState'.gameHistory = gameState.gameHistory
              /\ gameState'.capturedPieces = gameState.capturedPieces
              /\ gameState'.lastMove = gameState.lastMove
              /\ gameState'.isFlipped = gameState.isFlipped
              /\ gameState'.soundEnabled = gameState.soundEnabled
              /\ gameState'.boardTheme = gameState.boardTheme
              /\ storage' = storage]_vars

\* black's clock has just ticked after a capture, and still runs
C23_Witness ==
  /\ last.op = "tick"
  /\ turn(gameState.game) = "b"
  /\ gameState.timeControl.black = initialTimeControl.black - 1
  /\ gameState.timeControl.white = initialTimeControl.white
  /\ gameState.capturedPieces.white # <<>>
  /\ gameState.isTimerRunning

\* C24: a move commit or a tick leaves the snapshot it started from as it
\* was, its captured pieces and its clock values included, so that the same
\* transition applied again to that snapshot gives the same successor.
C24_SnapshotsImmutable ==
  /\ \A from \in Squares, to \in Squares :
        /\ handleMovePrev(gameState, from, to) = gameState
        /\ handleMoveUpdate(handleMovePrev(gameState, from, to), from, to).state
             = handleMoveUpdate(gameState, from, to).state
  /\ gameState.isTimerRunning
       => /\ tickPrev(gameState) = gameState
          /\ tickUpdate(tickPrev(gameState)).state = tickUpdate(gameState).state

\* how many times a sound is played in a list of playSound calls
Played(sounds, type) == Cardinality({i \in 1..Len(sounds) : sounds[i] = type})

\* C25: a committed capture appends the captured piece, with the colour of
\* the opponent and its type, to the list of the side that moved and leaves
\* the other list as it was; a committed move without capture leaves both
\* lists as they were; each committed move plays exactly one of the capture
\* and move sounds.
C25_CaptureBucket ==
  [][last'.outcome = "committed"
       => \E from \in Squares, to \in Squares :
            LET move == FindMove(gameState.game, from, to)
                side == Mover(gameState)
                sounds == playSounds(move, gameState'.game)
                before == gameState.capturedPieces
                after == gameState'.capturedPieces
            IN  /\ move # NoMove
                /\ gameState'.lastMove = [from |-> from, to |-> to]
                /\ after[Other(side)] = before[Other(side)]
                /\ Played(sounds, "capture") + Played(sounds, "move") = 1
                /\ IF move.captured # "-"
                   THEN /\ after[side] =
                             Append(before[side],
                                    <<IF side = "white" THEN "b" ELSE "w",
                                      toUpperCase(move.captured)>>)
                        /\ Played(sounds, "capture") = 1
                   ELSE /\ after[side] = before[side]
                        /\ Played(sounds, "move") = 1]_vars

\* black has just captured, after a capture by white
C25_Witness ==
  /\ last.outcome = "committed"
  /\ turn(gameState.game) = "w"
  /\ gameState.game.history[Len(gameState.game.history)].captured # "-"
  /\ gameState.capturedPieces.black # <<>>
  /\ gameState.capturedPieces.white # <<>>

\* the moves of a history written in SAN, replayed from the default position
Records(history) == Replay(Chess(DEFAULT_POSITION), history).history

\* C26: lastMove is null exactly when the history is empty, and otherwise
\* holds the squares of the last move of the history.
C26_LastMoveMatchesHistory ==
  LET history == gameState.gameHistory
      records == Records(history)
  IN  /\ (gameState.lastMove = NoLastMove) <=> (history = <<>>)
      /\ history # <<>>
           => /\ Len(records) = Len(history)
              /\ gameState.lastMove = [from |-> records[Len(records)].from,
                                       to |-> records[Len(records)].to]

\* an undo has just left one move of two in the history
C26_Witness ==
  /\ last.op = "undoMove" /\ last.outcome = "undone"
  /\ Len(gameState.gameHistory) = 1
  /\ gameState.lastMove # NoLastMove

\* C27: the selection is empty right after every committed move, undo,
\* deselect and reset; the stored item never holds it, and the session
\* restored from the item has none.
C27_SelectionTransient ==
  /\ last.outcome \in {"committed", "undone", "deselected", "reset"}
       => gameState.selectedSquare = NoSquare /\ gameState.legalMoves = {}
  /\ storage # <<>>
       => /\ {"selectedSquare", "legalMoves"} \cap DOMAIN storage[1] = {}
          /\ Restore(storage).selectedSquare = NoSquare
          /\ Restore(storage).legalMoves = {}

\* the board has just been flipped and saved, after a move, while a piece
\* with legal destinations is selected
C27_Witness ==
  /\ last.op = "flipBoard" /\ last.saved
  /\ gameState.selectedSquare # NoSquare
  /\ gameState.legalMoves # {}
  /\ Len(gameState.gameHistory) >= 1
  /\ storage # <<>>

\* C28: the selection is never stale: a selected square holds a piece of the
\* side to move in the current position and legalMoves are the engine's
\* legal destinations of that square in the current position; without a
\* selected square legalMoves is empty.
C28_SelectionNeverStale ==
  IF gameState.selectedSquare = NoSquare
  THEN gameState.legalMoves = {}
  ELSE /\ OwnPiece(gameState.game, gameState.selectedSquare)
       /\ gameState.legalMoves = moves(gameState.game, gameState.selectedSquare)

\* black has a piece with legal destinations selected after a move and an
\* undone move
C28_Witness ==
  /\ last.op = "handleSquareClick" /\ last.outcome = "selected"
  /\ turn(gameState.game) = "b"
  /\ gameState.legalMoves # {}
  /\ played >= 2
  /\ Len(gameState.gameHistory) = 1

\* C29: the exported game record, and the one in the stored item, hold
\* every move of the move history, in the order they were played.
C29_ExportHoldsWholeGame ==
  /\ exportPGN(gameState).moves = gameState.gameHistory
  /\ last.saved => storage[1].pgn.moves = gameState.gameHistory

\* how many times the position reached by a history written in SAN has
\* occurred in the game
Occurrences(history) ==
  LET replayed == Replay(Chess(DEFAULT_POSITION), history)
      visited == Visited(replayed)
  IN  Cardinality({i \in 1..Len(visited) : visited[i] = fen(replayed)})

\* C30: a committed move that brings about a position for the third time in
\* the game ends the game: the session is game-over, the clock is stopped
\* and the reason shown is the threefold repetition.
C30_ThreefoldRepetitionEndsGame ==
  [][(last'.outcome = "committed" /\ Occurrences(gameState'.gameHistory) >= 3)
       => /\ isGameOver(gameState'.game)
          /\ ~gameState'.isTimerRunning
          /\ getGameResult(gameState'.game).message
               = "Draw by threefold repetition"]_vars

\* C31: Apply on a settings form whose time and increment were never edited
\* leaves the clock as it is: the times the ticks have taken and the
\* increments have credited since the form was created are kept.
C31_ApplyUneditedKeepsClock ==
  [][last'.op = "handleApplySettings"
       => /\ gameState'.timeControl = gameState.timeControl
          /\ gameState'.isTimerRunning = gameState.isTimerRunning]_vars

\* the interval is live: the clock runs and the game is not over
Live == gameState.isTimerRunning /\ ~isGameOver(gameState.game)

\* C32: once the user does nothing more, a live clock keeps ticking until
\* the side to move has no time left and the clock is stopped, and no tick
\* follows: from some point on the interval is not live, and if the ticks
\* were what ended it, the side to move is at 0 with the clock stopped.
C32_ExpiryLiveness ==
  (<>[][last'.op = "tick"]_vars)
    => <>[](/\ ~Live
            /\ last.op = "tick"
                 => /\ ~gameState.isTimerRunning
                    /\ gameState.timeControl[Mover(gameState)] = 0)

\* the ticks have brought black, credited with an increment, down to 0 and
\* stopped the clock
C32_Witness ==
  /\ last.op = "tick"
  /\ ~gameState.isTimerRunning
  /\ turn(gameState.game) = "b"
  /\ gameState.timeControl.black = 0
  /\ played >= 2
  /\ timeUpToasts >= 1

\* white is to move exactly when the history has an even number of entries,
\* and the entries at the odd places 1, 3, 5, ... are white's moves
Parity(state) ==
  /\ (turn(state.game) = "w") <=> (Len(state.gameHistory) % 2 = 0)
  /\ Len(Records(state.gameHistory)) = Len(state.gameHistory)
  /\ \A i \in 1..Len(state.gameHistory) :
        (Records(state.gameHistory)[i].color = "w") <=> (i % 2 = 1)

\* C33: in the session, and in the session restored from the item it wrote,
\* the side to move is white exactly when the move history has even length,
\* so that every second entry from the first on is a move of white.
C33_PlyParity ==
  /\ Parity(gameState)
  /\ storage # <<>> => Parity(Restore(storage))

\* an undo has just left three moves of four, with black to move
C33_Witness ==
  /\ last.op = "undoMove" /\ last.outcome = "undone"
  /\ Len(gameState.gameHistory) = 3
  /\ turn(gameState.game) = "b"
  /\ storage # <<>>

\* C34: flipBoard, toggleSound and updateBoardTheme change their own field
\* only: the flip and the sound switch invert it, so that two of them bring
\* the value back, and the position, the history, the captured pieces, the
\* last move, the selection, the clock times and the running flag stay.
C34_PreferenceFrame ==
  [][/\ last'.op = "flipBoard"
          => /\ gameState' = [gameState EXCEPT !.isFlipped = ~gameState.isFlipped]
             /\ flipBoardUpdate(gameState').state = gameState
     /\ last'.op = "toggleSound"
          => /\ gameState' = [gameState EXCEPT !.soundEnabled = ~gameState.soundEnabled]
             /\ toggleSoundUpdate(gameState').state = gameState
     /\ last'.op = "updateBoardTheme"
          => \E theme \in BOARD_THEMES :
               gameState' = [gameState EXCEPT !.boardTheme = theme]]_vars

\* the sound has just been switched off on a flipped board, after a move,
\* with a piece selected
C34_Witness ==
  /\ last.op = "toggleSound"
  /\ ~gameState.soundEnabled
  /\ gameState.isFlipped
  /\ gameState.boardTheme # "classic"
  /\ gameState.selectedSquare # NoSquare
  /\ Len(gameState.gameHistory) >= 1
=============================================================================
